---- MODULE Spec2Model ----
(*
  News-aggregation core of TrendNews (src/TrendNews): the per-day snapshot
  directory, the snapshot merger (read_all_today_titles / process_source_data),
  the diff detector (detect_latest_new_titles) and the classifier
  (matches_word_groups / count_word_frequency).

  Strings are sequences of one-character strings, so that substring tests,
  lower-casing, whitespace cleaning and lexical order are computed, not assumed.
  A Python dict is a sequence of [k, v] pairs with distinct keys, in insertion
  order, because iteration order is observable in the code.
*)
EXTENDS Integers, Sequences, FiniteSets, TLC

\* ------------------------------------------------------------------ bounds
FirstHour == 8        \* hour of the first crawl of the day (one crawl an hour)
MaxSnapshots == 3     \* crawls in the day
MaxUnits == 3         \* title lines (and bare headers) written over the whole day

\* ------------------------------------------------------------ Python dicts
EmptyDict == << >>

DictKeys(d) == { d[i].k : i \in DOMAIN d }

DictHas(d, key) == \E i \in DOMAIN d : d[i].k = key

DictGet(d, key) == d[CHOOSE i \in DOMAIN d : d[i].k = key].v

\* d[key] = val : in place when the key exists, appended otherwise
DictPut(d, key, val) ==
    IF DictHas(d, key)
    THEN [ i \in DOMAIN d |-> IF d[i].k = key THEN [k |-> key, v |-> val] ELSE d[i] ]
    ELSE Append(d, [k |-> key, v |-> val])

\* d.update(e)
RECURSIVE DictUpdate(_, _)
DictUpdate(d, e) ==
    IF e = << >> THEN d
    ELSE DictUpdate(DictPut(d, Head(e).k, Head(e).v), Tail(e))

\* {k: v for k, v in d.items() if k in keep}
RECURSIVE DictFilter(_, _)
DictFilter(d, keep) ==
    IF d = << >> THEN << >>
    ELSE IF Head(d).k \in keep
         THEN << Head(d) >> \o DictFilter(Tail(d), keep)
         ELSE DictFilter(Tail(d), keep)

\* ------------------------------------------------------------------ strings
IsSpace(c) == c = " "

RECURSIVE LStrip(_)
LStrip(s) == IF s # << >> /\ IsSpace(Head(s)) THEN LStrip(Tail(s)) ELSE s

RECURSIVE RStrip(_)
RStrip(s) ==
    IF s # << >> /\ IsSpace(s[Len(s)]) THEN RStrip(SubSeq(s, 1, Len(s) - 1)) ELSE s

Strip(s) == RStrip(LStrip(s))

\* re.sub(r"\s+", " ", s)
RECURSIVE CollapseSpaces(_)
CollapseSpaces(s) ==
    IF Len(s) < 2 THEN s
    ELSE IF IsSpace(s[1]) /\ IsSpace(s[2])
         THEN CollapseSpaces(Tail(s))
         ELSE << Head(s) >> \o CollapseSpaces(Tail(s))

clean_title(title) == Strip(CollapseSpaces(title))

\* lexical order of two strings of digits (the order sorted() gives file names)
RECURSIVE LexLess(_, _)
LexLess(a, b) ==
    IF b = << >> THEN FALSE
    ELSE IF a = << >> THEN TRUE
    ELSE IF Head(a) # Head(b) THEN Head(a) < Head(b)
    ELSE LexLess(Tail(a), Tail(b))

LexLeq(a, b) == a = b \/ LexLess(a, b)

\* ------------------------------------------------------------- time of day
\* strftime("%H..."): two digits, zero padded (the minute part is constant)
format_time_filename(h) == << h \div 10, h % 10 >>

\* sorted(names): ascending lexical order
RECURSIVE SortedNames(_)
SortedNames(S) ==
    IF S = {} THEN << >>
    ELSE LET m == CHOOSE x \in S : \A y \in S : LexLeq(x, y)
         IN << m >> \o SortedNames(S \ {m})

\* ------------------------------------------------------ snapshot file text
Sources == {"s1", "s2"}

\* titles as the fetch layer hands them over
RawTitles == { << "a" >>, << "A", " ", " ", "b" >> }

\* rank prefix of a title line: "1", "2", a superscript two (written "sup2":
\* str.isdigit() is true of it, int() raises), or "" for no prefix at all
IsDigitTok(tok) == tok \in {"1", "2", "sup2"}

IntParses(tok) == tok \in {"1", "2"}

IntOf(tok) == IF tok = "1" THEN 1 ELSE 2

\* the (rank, url, mobileUrl) a source reports for a title in one crawl
DataMenu ==
    { [tok |-> "1", url |-> "",   mobile |-> ""  ],
      [tok |-> "2", url |-> "u1", mobile |-> "m1"],
      [tok |-> "1", url |-> "u2", mobile |-> ""  ] }

MkLine(d, t) == [tok |-> d.tok, title |-> t, url |-> d.url, mobile |-> d.mobile]

\* what each source can report: s1 any title with any data, s2 the one title
\* "a" with a rank and urls that differ from what s1 may say about "a"
SourceLines(id) ==
    IF id = "s1"
    THEN { MkLine(d, t) : d \in DataMenu, t \in RawTitles }
    ELSE { MkLine([tok |-> "2", url |-> "u1", mobile |-> "m1"], << "a" >>) }

\* display name written after " | " in a section header; "" writes the bare id
NameAt(h, id) == IF id = "s1" THEN (IF h % 2 = 0 THEN "Name-even" ELSE "Name-odd") ELSE ""

\* one section per source id of the results dict, in dict order; a section with
\* no line is a bare header
Section(h, id, lines) == [id |-> id, name |-> NameAt(h, id), lines |-> lines]

\* --------------------------------------------------------- parse_file_titles
TitleData(rank, url, mobile) == [ranks |-> << rank >>, url |-> url, mobileUrl |-> mobile]

\* one title line of a section (the body of the try block); tbd is
\* titles_by_id[source_id]
ParseLine(tbd, line) ==
    IF IsDigitTok(line.tok) /\ ~IntParses(line.tok)
    THEN tbd                                   \* int() raised: the line is skipped
    ELSE LET rank  == IF IsDigitTok(line.tok) THEN IntOf(line.tok) ELSE 1
             title == clean_title(Strip(line.title))
         IN DictPut(tbd, title, TitleData(rank, line.url, line.mobile))

\* variant: the try block around the whole loop, so an unparsable line ends
\* the section and drops what was parsed of it
RECURSIVE ParseLines_AbortSection(_, _)
ParseLines_AbortSection(tbd, lines) ==
    IF lines = << >> THEN tbd
    ELSE IF IsDigitTok(Head(lines).tok) /\ ~IntParses(Head(lines).tok)
         THEN EmptyDict
         ELSE ParseLines_AbortSection(ParseLine(tbd, Head(lines)), Tail(lines))

RECURSIVE ParseLines(_, _)
ParseLines(tbd, lines) ==
    IF lines = << >> THEN tbd
    ELSE ParseLines(ParseLine(tbd, Head(lines)), Tail(lines))

\* acc = [titles_by_id, id_to_name]
ParseSection(acc, sec) ==
    IF Len(sec.lines) < 1
    THEN acc                                   \* len(lines) < 2: continue
    ELSE [ titles_by_id |->
             DictPut(acc.titles_by_id, sec.id, ParseLines(EmptyDict, sec.lines)),
           id_to_name |->
             DictPut(acc.id_to_name, sec.id,
                     IF sec.name # "" THEN sec.name ELSE sec.id) ]

RECURSIVE ParseSections(_, _)
ParseSections(acc, secs) ==
    IF secs = << >> THEN acc
    ELSE ParseSections(ParseSection(acc, Head(secs)), Tail(secs))

\* file.sections holds the sections of the file other than the failed-ids
\* sentinel, which the parser skips
parse_file_titles(file) ==
    ParseSections([titles_by_id |-> EmptyDict, id_to_name |-> EmptyDict], file.sections)

\* ------------------------------------------------------- process_source_data
\* variant: every incoming rank is appended, present or not
MergeRanks_AppendAll(merged, ranks) == merged \o ranks

RECURSIVE MergeRanks(_, _)
MergeRanks(merged, ranks) ==
    IF ranks = << >> THEN merged
    ELSE IF \E i \in DOMAIN merged : merged[i] = Head(ranks)
         THEN MergeRanks(merged, Tail(ranks))
         ELSE MergeRanks(Append(merged, Head(ranks)), Tail(ranks))

NewEntry(data, time_info) ==
    [ first_time |-> time_info, last_time |-> time_info, count |-> 1,
      ranks |-> data.ranks, url |-> data.url, mobileUrl |-> data.mobileUrl ]

\* variant: a later non-empty value replaces the stored one
BackfillUrl_Overwrite(existing, incoming) == IF incoming # "" THEN incoming ELSE existing

\* url backfill of the ledger entry: "if not entry.get('url'): entry['url'] = url"
BackfillUrl(existing, incoming) == IF existing = "" THEN incoming ELSE existing

\* "existing_url or url" of the merged per-source map
OrUrl(existing, incoming) == IF existing # "" THEN existing ELSE incoming

\* variant: last_time is left at its first value on a re-encounter
MergeSeenTitle_KeepLastTime(st, title, data, time_info) ==
    LET existing_data == DictGet(st.res, title)
        merged_ranks  == MergeRanks(existing_data.ranks, data.ranks)
        old           == DictGet(st.info, title)
    IN [ res  |-> DictPut(st.res, title,
                    [ ranks     |-> merged_ranks,
                      url       |-> OrUrl(existing_data.url, data.url),
                      mobileUrl |-> OrUrl(existing_data.mobileUrl, data.mobileUrl) ]),
         info |-> DictPut(st.info, title,
                    [ first_time |-> old.first_time,
                      last_time  |-> old.last_time,
                      count      |-> old.count + 1,
                      ranks      |-> merged_ranks,
                      url        |-> BackfillUrl(old.url, data.url),
                      mobileUrl  |-> BackfillUrl(old.mobileUrl, data.mobileUrl) ]) ]

\* a title seen again under a source already merged (lines 204-226);
\* st = [res, info] are all_results[source_id] and title_info[source_id]
MergeSeenTitle(st, title, data, time_info) ==
    LET existing_data == DictGet(st.res, title)
        merged_ranks  == MergeRanks(existing_data.ranks, data.ranks)
        old           == DictGet(st.info, title)
    IN [ res  |-> DictPut(st.res, title,
                    [ ranks     |-> merged_ranks,
                      url       |-> OrUrl(existing_data.url, data.url),
                      mobileUrl |-> OrUrl(existing_data.mobileUrl, data.mobileUrl) ]),
         info |-> DictPut(st.info, title,
                    [ first_time |-> old.first_time,
                      last_time  |-> time_info,
                      count      |-> old.count + 1,
                      ranks      |-> merged_ranks,
                      url        |-> BackfillUrl(old.url, data.url),
                      mobileUrl  |-> BackfillUrl(old.mobileUrl, data.mobileUrl) ]) ]

\* one iteration of the else-branch loop (lines 184-226)
MergeTitle(st, title, data, time_info) ==
    IF ~DictHas(st.res, title)
    THEN [ res  |-> DictPut(st.res, title,
                      [ranks |-> data.ranks, url |-> data.url, mobileUrl |-> data.mobileUrl]),
           info |-> DictPut(st.info, title, NewEntry(data, time_info)) ]
    ELSE MergeSeenTitle(st, title, data, time_info)

RECURSIVE MergeTitles(_, _, _)
MergeTitles(st, title_data, time_info) ==
    IF title_data = << >> THEN st
    ELSE MergeTitles(MergeTitle(st, Head(title_data).k, Head(title_data).v, time_info),
                     Tail(title_data), time_info)

RECURSIVE FirstEntries(_, _, _)
FirstEntries(info, title_data, time_info) ==
    IF title_data = << >> THEN info
    ELSE FirstEntries(DictPut(info, Head(title_data).k, NewEntry(Head(title_data).v, time_info)),
                      Tail(title_data), time_info)

\* m = [all_results, title_info]; returns both after the call
process_source_data(source_id, title_data, time_info, m) ==
    IF ~DictHas(m.all_results, source_id)
    THEN LET info0 == IF DictHas(m.title_info, source_id)
                      THEN DictGet(m.title_info, source_id) ELSE EmptyDict
         IN [ all_results |-> DictPut(m.all_results, source_id, title_data),
              title_info  |-> DictPut(m.title_info, source_id,
                                      FirstEntries(info0, title_data, time_info)) ]
    ELSE LET st == MergeTitles([ res  |-> DictGet(m.all_results, source_id),
                                 info |-> DictGet(m.title_info, source_id) ],
                               title_data, time_info)
         IN [ all_results |-> DictPut(m.all_results, source_id, st.res),
              title_info  |-> DictPut(m.title_info, source_id, st.info) ]

\* -------------------------------------------------- detect_latest_new_titles
\* lines 322-326: historical_titles[source_id].add(title) over one earlier file;
\* hist is a dict source -> set of titles
RECURSIVE AddHistorical(_, _)
AddHistorical(hist, data) ==
    IF data = << >> THEN hist
    ELSE LET id  == Head(data).k
             old == IF DictHas(hist, id) THEN DictGet(hist, id) ELSE {}
         IN AddHistorical(DictPut(hist, id, old \cup DictKeys(Head(data).v)), Tail(data))

\* lines 311-326 over files[:-1]
RECURSIVE HistoricalTitles(_, _, _, _)
HistoricalTitles(hist, files, names, allow) ==
    IF names = << >> THEN hist
    ELSE LET data == IF allow.given
                     THEN DictFilter(parse_file_titles(files[Head(names)]).titles_by_id,
                                     allow.ids)
                     ELSE parse_file_titles(files[Head(names)]).titles_by_id
         IN HistoricalTitles(AddHistorical(hist, data), files, Tail(names), allow)

\* variant: every title of the latest file is reported
SourceNewTitles_All(latest_source_titles, historical_set) == latest_source_titles

\* lines 333-335: the titles of one source of the latest file that are not in
\* the historical set, with the latest file's data
RECURSIVE SourceNewTitles(_, _)
SourceNewTitles(latest_source_titles, historical_set) ==
    IF latest_source_titles = << >> THEN << >>
    ELSE IF Head(latest_source_titles).k \notin historical_set
         THEN << Head(latest_source_titles) >>
              \o SourceNewTitles(Tail(latest_source_titles), historical_set)
         ELSE SourceNewTitles(Tail(latest_source_titles), historical_set)

\* variant: one historical set shared by all sources
RECURSIVE CollectNew_SharedHistory(_, _)
CollectNew_SharedHistory(latest_titles, hist) ==
    IF latest_titles = << >> THEN << >>
    ELSE LET id  == Head(latest_titles).k
             set == UNION { hist[i].v : i \in DOMAIN hist }
             new == SourceNewTitles(Head(latest_titles).v, set)
         IN (IF new # << >> THEN << [k |-> id, v |-> new] >> ELSE << >>)
            \o CollectNew_SharedHistory(Tail(latest_titles), hist)

\* lines 328-338
RECURSIVE CollectNew(_, _)
CollectNew(latest_titles, hist) ==
    IF latest_titles = << >> THEN << >>
    ELSE LET id  == Head(latest_titles).k
             set == IF DictHas(hist, id) THEN DictGet(hist, id) ELSE {}
             new == SourceNewTitles(Head(latest_titles).v, set)
         IN (IF new # << >> THEN << [k |-> id, v |-> new] >> ELSE << >>)
            \o CollectNew(Tail(latest_titles), hist)

\* variant: a single file is enough to report
MinFilesForDiff_One == 2 - 1

\* the number of files below which nothing is reported (line 298)
MinFilesForDiff == 2

detect_latest_new_titles(dir_exists, files, allow) ==
    IF ~dir_exists THEN EmptyDict
    ELSE LET names == SortedNames(DOMAIN files)
         IN IF Len(names) < MinFilesForDiff THEN EmptyDict
            ELSE LET latest  == parse_file_titles(files[names[Len(names)]]).titles_by_id
                     latestF == IF allow.given THEN DictFilter(latest, allow.ids) ELSE latest
                     hist    == HistoricalTitles(EmptyDict, files,
                                                 SubSeq(names, 1, Len(names) - 1), allow)
                 IN CollectNew(latestF, hist)

\* -------------------------------------------------------- matches_word_groups
\* str.lower() on the letters of the model
Lower(c) == IF c = "A" THEN "a" ELSE IF c = "B" THEN "b" ELSE c

LowerStr(str) == [ i \in DOMAIN str |-> Lower(str[i]) ]

\* w in t
IsSubstr(w, t) ==
    \E i \in 0 .. (Len(t) - Len(w)) : SubSeq(t, i + 1, i + Len(w)) = w

\* any(filter_word.lower() in title_lower for filter_word in filter_words)
HasFilterWord(title_lower, filter_words) ==
    \E i \in DOMAIN filter_words : IsSubstr(LowerStr(filter_words[i]), title_lower)

\* the two tests a group applies (lines 32-45 and 183-197)
GroupMatches(title_lower, group) ==
    /\ group.required # << >> =>
          \A i \in DOMAIN group.required : IsSubstr(LowerStr(group.required[i]), title_lower)
    /\ group.normal # << >> =>
          \E i \in DOMAIN group.normal : IsSubstr(LowerStr(group.normal[i]), title_lower)

\* variant: the filter words are tested before the empty-groups fallback
matches_word_groups_FilterFirst(title, word_groups, filter_words) ==
    IF Strip(title) = << >> THEN FALSE
    ELSE IF HasFilterWord(LowerStr(title), filter_words) THEN FALSE
    ELSE IF word_groups = << >> THEN TRUE
    ELSE \E i \in DOMAIN word_groups : GroupMatches(LowerStr(title), word_groups[i])

\* variant: the filter words are not tested at all
matches_word_groups_NoFilter(title, word_groups, filter_words) ==
    IF Strip(title) = << >> THEN FALSE
    ELSE IF word_groups = << >> THEN TRUE
    ELSE \E i \in DOMAIN word_groups : GroupMatches(LowerStr(title), word_groups[i])

matches_word_groups(title, word_groups, filter_words) ==
    IF Strip(title) = << >> THEN FALSE                      \* line 13
    ELSE IF word_groups = << >> THEN TRUE                   \* line 17
    ELSE IF HasFilterWord(LowerStr(title), filter_words) THEN FALSE
    ELSE \E i \in DOMAIN word_groups : GroupMatches(LowerStr(title), word_groups[i])

\* ------------------------------------------------------- count_word_frequency
\* group_key of the group made up when no group is configured (line 67)
AllNewsKey == "all-news"

AllNewsGroup == [required |-> << >>, normal |-> << >>, group_key |-> AllNewsKey]

ShowsAll(word_groups) == Len(word_groups) = 1 /\ word_groups[1].group_key = AllNewsKey

\* lines 85-91: the greatest non-empty last_time of the ledger, "" if none
LatestTime(title_info) ==
    LET times == { e[3].last_time :
                     e \in UNION { { << title_info[i].k, title_info[i].v[j].k,
                                        title_info[i].v[j].v >> :
                                      j \in DOMAIN title_info[i].v } : i \in DOMAIN title_info } }
                 \ { << >> }
    IN IF times = {} THEN << >>
       ELSE CHOOSE x \in times : \A y \in times : LexLeq(y, x)

\* variant: the last_time of the ledger entry is not compared
CurrentTitles_AnyTime(source_titles, info, latest_time) ==
    SelectSeq(source_titles, LAMBDA e : DictHas(info, e.k))

\* lines 98-103: the titles of a source whose ledger last_time is latest_time
RECURSIVE CurrentTitles(_, _, _)
CurrentTitles(source_titles, info, latest_time) ==
    IF source_titles = << >> THEN << >>
    ELSE (IF DictHas(info, Head(source_titles).k)
             /\ DictGet(info, Head(source_titles).k).last_time = latest_time
          THEN << Head(source_titles) >> ELSE << >>)
         \o CurrentTitles(Tail(source_titles), info, latest_time)

\* lines 95-105
RECURSIVE CurrentScope(_, _, _)
CurrentScope(results, title_info, latest_time) ==
    IF results = << >> THEN << >>
    ELSE LET id  == Head(results).k
             flt == IF DictHas(title_info, id)
                    THEN CurrentTitles(Head(results).v, DictGet(title_info, id), latest_time)
                    ELSE << >>
         IN (IF flt # << >> THEN << [k |-> id, v |-> flt] >> ELSE << >>)
            \o CurrentScope(Tail(results), title_info, latest_time)

\* variant: the incremental mode goes through the whole results on every run
ScopeToProcess_IncrementalAll(mode, is_first_today, results, title_info, new_titles) ==
    IF mode = "incremental" THEN results
    ELSE IF mode = "current"
    THEN IF title_info # << >> /\ LatestTime(title_info) # << >>
         THEN CurrentScope(results, title_info, LatestTime(title_info))
         ELSE results
    ELSE results

\* lines 73-118: results_to_process
ScopeToProcess(mode, is_first_today, results, title_info, new_titles) ==
    IF mode = "incremental"
    THEN IF is_first_today THEN results ELSE new_titles
    ELSE IF mode = "current"
    THEN IF title_info # << >> /\ LatestTime(title_info) # << >>
         THEN CurrentScope(results, title_info, LatestTime(title_info))
         ELSE results
    ELSE results

\* variant: a title is filed under the last group whose tests pass
FirstGroup_Last(title_lower, word_groups) ==
    IF ShowsAll(word_groups) THEN 1
    ELSE IF \E i \in DOMAIN word_groups : GroupMatches(title_lower, word_groups[i])
         THEN CHOOSE i \in DOMAIN word_groups :
                /\ GroupMatches(title_lower, word_groups[i])
                /\ \A j \in (i + 1) .. Len(word_groups) :
                      ~GroupMatches(title_lower, word_groups[j])
         ELSE 0

\* position of the group a matched title is filed under (lines 171-202): the
\* only group when all news are shown, else the first group whose tests pass;
\* 0 when no group passes
FirstGroup(title_lower, word_groups) ==
    IF ShowsAll(word_groups) THEN 1
    ELSE IF \E i \in DOMAIN word_groups : GroupMatches(title_lower, word_groups[i])
         THEN CHOOSE i \in DOMAIN word_groups :
                /\ GroupMatches(title_lower, word_groups[i])
                /\ \A j \in 1 .. (i - 1) : ~GroupMatches(title_lower, word_groups[j])
         ELSE 0

\* format_time_display
format_time_display(first_time, last_time) ==
    IF first_time = << >> THEN << >>
    ELSE IF first_time = last_time \/ last_time = << >> THEN first_time
    ELSE << "[" >> \o first_time \o << " ", "~", " " >> \o last_time \o << "]" >>

\* rank given to a title that has no rank (line 241)
DefaultRank == 99

\* variant: a title is new when the diff holds it under any source
TitleRecord_NewInAnySource(source_id, title, title_data, a) ==
    LET known == DictHas(a.title_info, source_id)
                 /\ DictHas(DictGet(a.title_info, source_id), title)
        info  == DictGet(DictGet(a.title_info, source_id), title)
        first_time == IF known THEN info.first_time ELSE << >>
        last_time  == IF known THEN info.last_time ELSE << >>
        ranks0 == IF known /\ info.ranks # << >> THEN info.ranks ELSE title_data.ranks
        ranks  == IF ranks0 = << >> THEN << DefaultRank >> ELSE ranks0
    IN [ title |-> title,
         source_name |-> IF DictHas(a.id_to_name, source_id)
                         THEN DictGet(a.id_to_name, source_id) ELSE source_id,
         first_time |-> first_time,
         last_time |-> last_time,
         time_display |-> format_time_display(first_time, last_time),
         count |-> IF known THEN info.count ELSE 1,
         ranks |-> ranks,
         rank_threshold |-> a.rank_threshold,
         url |-> IF known THEN info.url ELSE title_data.url,
         mobileUrl |-> IF known THEN info.mobileUrl ELSE title_data.mobileUrl,
         is_new |-> IF a.mode = "incremental" THEN TRUE
                    ELSE \E i \in DOMAIN a.new_titles : DictHas(a.new_titles[i].v, title) ]

\* lines 204-271: the record appended for a matched title
TitleRecord(source_id, title, title_data, a) ==
    LET known == DictHas(a.title_info, source_id)
                 /\ DictHas(DictGet(a.title_info, source_id), title)
        info  == DictGet(DictGet(a.title_info, source_id), title)
        first_time == IF known THEN info.first_time ELSE << >>
        last_time  == IF known THEN info.last_time ELSE << >>
        ranks0 == IF known /\ info.ranks # << >> THEN info.ranks ELSE title_data.ranks
        ranks  == IF ranks0 = << >> THEN << DefaultRank >> ELSE ranks0
    IN [ title |-> title,
         source_name |-> IF DictHas(a.id_to_name, source_id)
                         THEN DictGet(a.id_to_name, source_id) ELSE source_id,
         first_time |-> first_time,
         last_time |-> last_time,
         time_display |-> format_time_display(first_time, last_time),
         count |-> IF known THEN info.count ELSE 1,
         ranks |-> ranks,
         rank_threshold |-> a.rank_threshold,
         url |-> IF known THEN info.url ELSE title_data.url,
         mobileUrl |-> IF known THEN info.mobileUrl ELSE title_data.mobileUrl,
         is_new |-> IF a.mode = "incremental" THEN TRUE
                    ELSE /\ DictHas(a.new_titles, source_id)
                         /\ DictHas(DictGet(a.new_titles, source_id), title) ]

\* lines 147-277 for one title; c = [word_stats, processed_titles], word_stats
\* a dict group_key -> [count, titles], titles a dict source -> list of records
CountTitle(c, source_id, title, title_data, a) ==
    IF << source_id, title >> \in c.processed_titles THEN c
    ELSE IF ~matches_word_groups(title, a.word_groups, a.filter_words) THEN c
    ELSE LET g == FirstGroup(LowerStr(title), a.word_groups)
         IN IF g = 0 THEN c
            ELSE LET key == a.word_groups[g].group_key
                     old == DictGet(c.word_stats, key)
                     lst == IF DictHas(old.titles, source_id)
                            THEN DictGet(old.titles, source_id) ELSE << >>
                 IN [ word_stats |->
                        DictPut(c.word_stats, key,
                          [ count  |-> old.count + 1,
                            titles |-> DictPut(old.titles, source_id,
                                         Append(lst, TitleRecord(source_id, title,
                                                                 title_data, a))) ]),
                      processed_titles |-> c.processed_titles \cup { << source_id, title >> } ]

RECURSIVE CountTitles(_, _, _, _)
CountTitles(c, source_id, titles_data, a) ==
    IF titles_data = << >> THEN c
    ELSE CountTitles(CountTitle(c, source_id, Head(titles_data).k, Head(titles_data).v, a),
                     source_id, Tail(titles_data), a)

RECURSIVE CountSources(_, _, _)
CountSources(c, to_process, a) ==
    IF to_process = << >> THEN c
    ELSE CountSources(CountTitles(c, Head(to_process).k, Head(to_process).v, a),
                      Tail(to_process), a)

\* lines 137-139
RECURSIVE InitWordStats(_, _)
InitWordStats(ws, word_groups) ==
    IF word_groups = << >> THEN ws
    ELSE InitWordStats(DictPut(ws, Head(word_groups).group_key,
                               [count |-> 0, titles |-> EmptyDict]),
                       Tail(word_groups))

RECURSIVE SumLens(_)
SumLens(d) == IF d = << >> THEN 0 ELSE Len(Head(d).v) + SumLens(Tail(d))

\* list.extend over the sources of a group (lines 311-313)
RECURSIVE Flatten(_)
Flatten(d) == IF d = << >> THEN << >> ELSE Head(d).v \o Flatten(Tail(d))

MinRank(ranks) == CHOOSE r \in { ranks[i] : i \in DOMAIN ranks } :
                    \A i \in DOMAIN ranks : r <= ranks[i]

\* variant: the key ends with the rank, last_time is not part of it
TitleKeyLess_NoTime(x, y) ==
    LET bx == IF x.is_new THEN 0 ELSE 1
        by == IF y.is_new THEN 0 ELSE 1
    IN \/ bx < by
       \/ bx = by /\ MinRank(x.ranks) < MinRank(y.ranks)

\* the sort key of lines 317-321 compared as Python compares tuples
TitleKeyLess(x, y) ==
    LET bx == IF x.is_new THEN 0 ELSE 1
        by == IF y.is_new THEN 0 ELSE 1
    IN \/ bx < by
       \/ bx = by /\ MinRank(x.ranks) < MinRank(y.ranks)
       \/ bx = by /\ MinRank(x.ranks) = MinRank(y.ranks) /\ LexLess(x.last_time, y.last_time)

\* list.sort is stable: x goes after every element that is not greater
RECURSIVE InsertTitle(_, _)
InsertTitle(sorted, x) ==
    IF sorted = << >> THEN << x >>
    ELSE IF TitleKeyLess(x, Head(sorted)) THEN << x >> \o sorted
         ELSE << Head(sorted) >> \o InsertTitle(Tail(sorted), x)

RECURSIVE SortTitles(_, _)
SortTitles(sorted, rest) ==
    IF rest = << >> THEN sorted
    ELSE SortTitles(InsertTitle(sorted, Head(rest)), Tail(rest))

\* sort(key=count, reverse=True), stable
RECURSIVE InsertStat(_, _)
InsertStat(sorted, x) ==
    IF sorted = << >> THEN << x >>
    ELSE IF x.count > Head(sorted).count THEN << x >> \o sorted
         ELSE << Head(sorted) >> \o InsertStat(Tail(sorted), x)

RECURSIVE SortStats(_, _)
SortStats(sorted, rest) ==
    IF rest = << >> THEN sorted
    ELSE SortStats(InsertStat(sorted, Head(rest)), Tail(rest))

\* variant: a group without titles keeps its entry
RECURSIVE StatList_KeepEmpty(_)
StatList_KeepEmpty(ws) ==
    IF ws = << >> THEN << >>
    ELSE << [ word |-> Head(ws).k, count |-> Head(ws).v.count,
              titles |-> SortTitles(<< >>, Flatten(Head(ws).v.titles)) ] >>
         \o StatList_KeepEmpty(Tail(ws))

\* lines 306-326
RECURSIVE StatList(_)
StatList(ws) ==
    IF ws = << >> THEN << >>
    ELSE (IF Head(ws).v.count > 0
          THEN << [ word |-> Head(ws).k, count |-> Head(ws).v.count,
                    titles |-> SortTitles(<< >>, Flatten(Head(ws).v.titles)) ] >>
          ELSE << >>)
         \o StatList(Tail(ws))

\* a = [results, word_groups, filter_words, id_to_name, title_info,
\*      rank_threshold, new_titles, mode, is_first_today]
count_word_frequency(a) ==
    LET no_groups == a.word_groups = << >>
        b == [a EXCEPT !.word_groups = IF no_groups THEN << AllNewsGroup >> ELSE @,
                       !.filter_words = IF no_groups THEN << >> ELSE @]
        to_process == ScopeToProcess(b.mode, b.is_first_today, b.results,
                                     b.title_info, b.new_titles)
        ws == CountSources([ word_stats |-> InitWordStats(EmptyDict, b.word_groups),
                             processed_titles |-> {} ], to_process, b).word_stats
    IN [ stats |-> SortStats(<< >>, StatList(ws)), total_titles |-> SumLens(to_process) ]

\* ---------------------------------------------------------------- push gate
\* time of day as text: a sequence of one-character strings
Digits == << "0", "1", "2", "3", "4", "5", "6", "7", "8", "9" >>

IsDigit(c) == \E i \in DOMAIN Digits : Digits[i] = c

DigitValue(c) == (CHOOSE i \in DOMAIN Digits : Digits[i] = c) - 1

\* code point order of the characters that occur: " " < digits < ":" < letters
CharOrder(c) ==
    IF c = " " THEN 0
    ELSE IF IsDigit(c) THEN 1 + DigitValue(c)
    ELSE IF c = ":" THEN 11
    ELSE 12

\* str <= str
RECURSIVE StrLeq(_, _)
StrLeq(a, b) ==
    IF a = << >> THEN TRUE
    ELSE IF b = << >> THEN FALSE
    ELSE IF Head(a) # Head(b) THEN CharOrder(Head(a)) < CharOrder(Head(b))
    ELSE StrLeq(Tail(a), Tail(b))

\* str.split(":")
RECURSIVE SplitColon(_)
SplitColon(str) ==
    IF \A i \in DOMAIN str : str[i] # ":" THEN << str >>
    ELSE LET i == CHOOSE x \in DOMAIN str :
                    str[x] = ":" /\ \A y \in 1 .. (x - 1) : str[y] # ":"
         IN << SubSeq(str, 1, i - 1) >> \o SplitColon(SubSeq(str, i + 1, Len(str)))

\* int(text) succeeds: digits, spaces around them allowed
IntText(str) == Strip(str) # << >> /\ \A i \in DOMAIN Strip(str) : IsDigit(Strip(str)[i])

RECURSIVE DigitsValue(_)
DigitsValue(str) ==
    IF str = << >> THEN 0
    ELSE 10 * DigitsValue(SubSeq(str, 1, Len(str) - 1)) + DigitValue(str[Len(str)])

IntValue(str) == DigitsValue(Strip(str))

\* f"{n:02d}"
TwoDigits(n) ==
    IF n < 10 THEN << "0", Digits[n + 1] >>
    ELSE IF n < 100 THEN << Digits[(n \div 10) + 1], Digits[(n % 10) + 1] >>
    ELSE << Digits[(n \div 100) + 1], Digits[((n \div 10) % 10) + 1], Digits[(n % 10) + 1] >>

\* now.strftime("%H:%M")
StrfTime(tod) == TwoDigits(tod[1]) \o << ":" >> \o TwoDigits(tod[2])

\* variant: the text is compared as configured, without padding
normalize_time_AsWritten(time_str) == time_str

\* normalize_time (push_manager.py 114-130): HH:MM, or the text itself when it
\* does not parse
normalize_time(time_str) ==
    LET parts == SplitColon(Strip(time_str))
    IN IF Len(parts) # 2 THEN time_str
       ELSE IF ~IntText(parts[1]) \/ ~IntText(parts[2]) THEN time_str
       ELSE IF ~(IntValue(parts[1]) <= 23 /\ IntValue(parts[2]) <= 59) THEN time_str
       ELSE TwoDigits(IntValue(parts[1])) \o << ":" >> \o TwoDigits(IntValue(parts[2]))

\* is_in_time_range with the clock reading tod = <<hour, minute>>
is_in_time_range(tod, start_time, end_time) ==
    /\ StrLeq(normalize_time(start_time), normalize_time(StrfTime(tod)))
    /\ StrLeq(normalize_time(StrfTime(tod)), normalize_time(end_time))

\* a record file name: push_record_<date>.json with the date as a day number,
\* or a name whose date part strptime rejects
RecordName(day) == [parses |-> TRUE, day |-> day]

UnparsableName == [parses |-> FALSE, day |-> 0]

\* variant: a record that cannot be read counts as pushed
has_pushed_today_FailClosed(files, today) == files[RecordName(today)] # "absent"

\* has_pushed_today: the file is absent, holds pushed = true, or cannot be
\* read or parsed ("damaged")
has_pushed_today(files, today) ==
    IF files[RecordName(today)] = "absent" THEN FALSE
    ELSE IF files[RecordName(today)] = "damaged" THEN FALSE
    ELSE files[RecordName(today)] = "pushed"

\* what open(..., "w") and json.dump can do to the record file
WriteOutcomes == { "written", "open-failed", "dump-failed" }

\* variant: no file is written
record_push_NoFile(files, today, outcome) == files

\* record_push: the file of the day is overwritten; a failure is caught
record_push(files, today, outcome) ==
    IF outcome = "written" THEN [files EXCEPT ![RecordName(today)] = "pushed"]
    ELSE IF outcome = "dump-failed" THEN [files EXCEPT ![RecordName(today)] = "damaged"]
    ELSE files

\* variant: the first failure ends the sweep
RECURSIVE SweepRecords_StopAtFailure(_, _, _, _, _)
SweepRecords_StopAtFailure(order, files, locked, today, retention_days) ==
    IF order = << >> THEN files
    ELSE LET name == Head(order)
         IN IF ~name.parses THEN files
            ELSE IF today - name.day > retention_days
            THEN IF name \in locked THEN files
                 ELSE SweepRecords_StopAtFailure(Tail(order),
                          [files EXCEPT ![name] = "absent"], locked, today, retention_days)
            ELSE SweepRecords_StopAtFailure(Tail(order), files, locked, today, retention_days)

\* cleanup_old_records, the loop over the files in the order glob gives them;
\* locked are the files unlink cannot remove
RECURSIVE SweepRecords(_, _, _, _, _)
SweepRecords(order, files, locked, today, retention_days) ==
    IF order = << >> THEN files
    ELSE LET name == Head(order)
             rest == Tail(order)
         IN IF ~name.parses                                   \* strptime raises
            THEN SweepRecords(rest, files, locked, today, retention_days)
            ELSE IF today - name.day > retention_days
            THEN IF name \in locked                           \* unlink raises
                 THEN SweepRecords(rest, files, locked, today, retention_days)
                 ELSE SweepRecords(rest, [files EXCEPT ![name] = "absent"],
                                   locked, today, retention_days)
            ELSE SweepRecords(rest, files, locked, today, retention_days)

\* the orders in which glob can give the files that exist
GlobOrders(files) ==
    LET present == { n \in DOMAIN files : files[n] # "absent" }
    IN { o \in [1 .. Cardinality(present) -> present] :
           \A i, j \in DOMAIN o : i # j => o[i] # o[j] }

\* ------------------------------------------------------------------- state
VARIABLES
    txt_dir_exists,    \* output/<date>/txt exists
    txt_files,         \* the day directory: file stem -> file text
    rd,                \* position of the running read_all_today_titles call
    all_results,       \* its locals, and after the return its results
    final_id_to_name,
    title_info,
    returned,          \* what the previous call returned, the files unchanged
    new_titles,        \* what detect_latest_new_titles returned last
    word_groups,       \* configuration: the interest groups, in order
    filter_words,      \* configuration: the filter words
    matched,           \* the last call of matches_word_groups and its result
    counted,           \* the last call of count_word_frequency and its result
    push_cfg,          \* configuration: push window and delivery channels
    clock,             \* the calendar day and the time of day
    record_files,      \* output/.push_records: record name -> content
    locked,            \* the record files that cannot be deleted
    inv,               \* the running or last call of send_to_notifications
    swept_from,        \* the record files before the last sweep in isolation
    push_history,      \* per day: the calls that succeeded, the records written
    pack,              \* a call of split_content_into_batches and its result
    crawl,             \* a call of crawl_websites and its three results
    pipeline,          \* the runs of NewsAnalyzer.run and the files they saved
    cache              \* one CacheService and the threads calling it

mergerVars == << txt_dir_exists, txt_files, rd, all_results, final_id_to_name,
                 title_info, returned, new_titles >>

configVars == << word_groups, filter_words >>

classifierVars == << matched, counted >>

pushVars == << push_cfg, clock, record_files, locked, inv, swept_from, push_history >>

deliveryVars == << pushVars, pack >>

outerVars == << crawl, pipeline, cache >>

vars == << mergerVars, configVars, classifierVars, deliveryVars, outerVars >>

\* what the actions of the snapshot processors leave alone
besideMerger == << configVars, classifierVars, deliveryVars, outerVars >>

\* current_platform_ids: None, or a list of ids (only membership is used)
NoFilter == [given |-> FALSE, ids |-> {}]

AllowLists == { NoFilter, [given |-> TRUE, ids |-> {"s1"}] }

InAllow(allow, id) == ~allow.given \/ id \in allow.ids

\* the "if current_platform_ids is not None" filter of both readers
FilterByAllow(d, allow) == IF allow.given THEN DictFilter(d, allow.ids) ELSE d

EmptyOutput ==
    [all_results |-> EmptyDict, final_id_to_name |-> EmptyDict, title_info |-> EmptyDict]

NoMatch == [valid |-> FALSE, title |-> << >>, result |-> FALSE]

NoArgs == [ results |-> EmptyDict, word_groups |-> << >>, filter_words |-> << >>,
            id_to_name |-> EmptyDict, title_info |-> EmptyDict, rank_threshold |-> 0,
            new_titles |-> EmptyDict, mode |-> "daily", is_first_today |-> TRUE ]

NoCount == [valid |-> FALSE, args |-> NoArgs, out |-> [stats |-> << >>, total_titles |-> 0]]

\* last calendar day of the runs of the push gate
MaxDay == 2

\* the record files that can exist
RecordNames == { RecordName(d) : d \in 1 .. MaxDay } \cup { UnparsableName }

NoRecords == [ n \in RecordNames |-> "absent" ]

\* the times of day the clock shows, in order
TimesOfDay == << << 7, 59 >>, << 8, 0 >>, << 22, 0 >>, << 22, 1 >> >>

\* push_record_retention_days when the configuration names none
DefaultRetentionDays == 7

NoPushConfig ==
    [ enabled |-> FALSE, once_per_day |-> FALSE,
      start |-> << "0", "8", ":", "0", "0" >>, end |-> << "2", "2", ":", "0", "0" >>,
      telegram |-> FALSE, email |-> FALSE, retention_days |-> DefaultRetentionDays ]

NoCall ==
    [ pc |-> "idle", gate |-> "none", day |-> 0, tod |-> 0, today_before |-> "absent",
      after_success |-> FALSE, after_record |-> FALSE, after_failure |-> FALSE,
      telegram |-> "none", email |-> "none", wrote |-> "none" ]

NoHistory == [ success |-> {}, resent |-> {}, written |-> {}, rewritten |-> {} ]

NoReport == [ stats |-> << >>, new_titles |-> << >>, failed_ids |-> << >> ]

\* split_content_into_batches has not been called
NoPack ==
    [ done |-> FALSE, report_data |-> NoReport, max_bytes |-> 0, mode |-> "daily",
      batches |-> << >> ]

\* crawl_websites has not been called
NoCrawl ==
    [ fetcher |-> "none", scrapers |-> {}, ids_list |-> << >>, named |-> FALSE, i |-> 1,
      results |-> << >>, id_to_name |-> << >>, failed_ids |-> << >>, returned |-> FALSE ]


\* no NewsAnalyzer yet
NoRun == [ pc |-> "none" ]

\* no CacheService yet
NoCache == [ pc |-> "none" ]

\* the fetch layer, the pipeline and the cache service are not in use
OuterIdle ==
    /\ crawl = NoCrawl
    /\ pipeline = NoRun
    /\ cache = NoCache

\* the push gate is not in use
PushIdle ==
    /\ push_cfg = NoPushConfig
    /\ clock = [day |-> 1, tod |-> 1]
    /\ record_files = NoRecords
    /\ locked = {}
    /\ inv = NoCall
    /\ swept_from = NoRecords
    /\ push_history = NoHistory
    /\ pack = NoPack
    /\ OuterIdle

\* nothing returned yet
NoReturn == [valid |-> FALSE, out |-> EmptyOutput]

NoDetect == [valid |-> FALSE, allow |-> NoFilter, out |-> EmptyDict]

Idle == [phase |-> "idle", allow |-> NoFilter, names |-> << >>, fi |-> 0,
         queue |-> << >>, time_info |-> << >>]

\* variant: the accumulators outlive the call (module-level state)
ReadLocals_Kept(prev) == prev

\* lines 247-249: the three accumulators are locals, created at each call
ReadLocals(prev) == EmptyOutput

CurrentOutput ==
    [all_results |-> all_results, final_id_to_name |-> final_id_to_name,
     title_info |-> title_info]

\* ------------------------------------------------------ files of the day
SectionUnits(sec) == IF sec.lines = << >> THEN 1 ELSE Len(sec.lines)

RECURSIVE FileUnits(_)
FileUnits(secs) == IF secs = << >> THEN 0 ELSE SectionUnits(Head(secs)) + FileUnits(Tail(secs))

RECURSIVE DirUnits(_, _)
DirUnits(files, names) ==
    IF names = {} THEN 0
    ELSE LET n == CHOOSE x \in names : TRUE
         IN FileUnits(files[n].sections) + DirUnits(files, names \ {n})

LineTitles(ls) == { clean_title(ls[i].title) : i \in DOMAIN ls }

\* the title lines of one section as save_titles_to_file writes them: one line
\* per key of the source's title dict
WrittenLines(id, n) ==
    { ls \in UNION { [1..k -> SourceLines(id)] : k \in 1..n } :
        Cardinality(LineTitles(ls)) = Len(ls) }

\* the section lists save_titles_to_file writes at hour h within a budget of
\* units: one section per key of the results dict, in the configured order
WrittenSections(h, budget) ==
    LET Secs(id) == { Section(h, id, ls) : ls \in WrittenLines(id, budget) }
    IN { << >> }
       \cup { << a >> : a \in Secs("s1") \cup Secs("s2") }
       \cup { p \in Secs("s1") \X Secs("s2") :
                 SectionUnits(p[1]) + SectionUnits(p[2]) <= budget }

\* the hour of the next crawl: crawls are an hour apart
NextHour == FirstHour + Cardinality(DOMAIN txt_files)

\* ---------------------------------------------------------------- actions
\* save_titles_to_file: a crawl run writes the file named after the clock
WriteSnapshot(max_units) ==
    /\ rd.phase # "reading"
    /\ Cardinality(DOMAIN txt_files) < MaxSnapshots
    /\ LET name   == format_time_filename(NextHour)
           budget == max_units - DirUnits(txt_files, DOMAIN txt_files)
       IN \E secs \in WrittenSections(NextHour, budget) :
            txt_files' = [ n \in DOMAIN txt_files \cup {name} |->
                             IF n = name THEN [sections |-> secs] ELSE txt_files[n] ]
    /\ txt_dir_exists' = TRUE
    /\ rd' = Idle
    /\ all_results' = EmptyDict
    /\ final_id_to_name' = EmptyDict
    /\ title_info' = EmptyDict
    /\ returned' = NoReturn
    /\ new_titles' = NoDetect

\* a crawl run saved its snapshot; the classifier is not involved
SaveSnapshot ==
    /\ WriteSnapshot(MaxUnits)
    /\ UNCHANGED besideMerger

\* read_all_today_titles, lines 241-251
ReadStart ==
    /\ UNCHANGED besideMerger
    /\ rd.phase # "reading"
    /\ \E allow \in AllowLists :
         LET loc == ReadLocals(CurrentOutput)
         IN /\ all_results' = loc.all_results
            /\ final_id_to_name' = loc.final_id_to_name
            /\ title_info' = loc.title_info
            /\ rd' = IF txt_dir_exists
                     THEN [phase |-> "reading", allow |-> allow,
                           names |-> SortedNames(DOMAIN txt_files), fi |-> 0,
                           queue |-> << >>, time_info |-> << >>]
                     ELSE [Idle EXCEPT !.phase = "done", !.allow = allow]
            /\ returned' = IF rd.phase = "done" /\ rd.allow = allow
                           THEN [valid |-> TRUE, out |-> CurrentOutput] ELSE NoReturn
    /\ new_titles' = NoDetect
    /\ UNCHANGED << txt_dir_exists, txt_files >>

\* lines 253-271: parse the next file, filter it, update the name map
ReadFile ==
    /\ UNCHANGED besideMerger
    /\ rd.phase = "reading"
    /\ rd.queue = << >>
    /\ rd.fi < Len(rd.names)
    /\ LET name   == rd.names[rd.fi + 1]
           parsed == parse_file_titles(txt_files[name])
           tbd    == FilterByAllow(parsed.titles_by_id, rd.allow)
           names  == IF rd.allow.given
                     THEN DictFilter(parsed.id_to_name, DictKeys(tbd))
                     ELSE parsed.id_to_name
       IN /\ final_id_to_name' = DictUpdate(final_id_to_name, names)
          /\ rd' = [rd EXCEPT !.fi = rd.fi + 1, !.queue = tbd, !.time_info = name]
    /\ UNCHANGED << txt_dir_exists, txt_files, all_results, title_info,
                    returned, new_titles >>

\* lines 273-276: one call of process_source_data
ProcessSource ==
    /\ UNCHANGED besideMerger
    /\ rd.phase = "reading"
    /\ rd.queue # << >>
    /\ LET m == process_source_data(Head(rd.queue).k, Head(rd.queue).v, rd.time_info,
                                    [all_results |-> all_results, title_info |-> title_info])
       IN /\ all_results' = m.all_results
          /\ title_info' = m.title_info
    /\ rd' = [rd EXCEPT !.queue = Tail(rd.queue)]
    /\ UNCHANGED << txt_dir_exists, txt_files, final_id_to_name, returned, new_titles >>

\* line 278
ReadReturn ==
    /\ UNCHANGED besideMerger
    /\ rd.phase = "reading"
    /\ rd.queue = << >>
    /\ rd.fi = Len(rd.names)
    /\ rd' = [rd EXCEPT !.phase = "done"]
    /\ UNCHANGED << txt_dir_exists, txt_files, all_results, final_id_to_name,
                    title_info, returned, new_titles >>

\* detect_latest_new_titles, one call
DetectNew ==
    /\ UNCHANGED besideMerger
    /\ rd.phase # "reading"
    /\ \E allow \in AllowLists :
         new_titles' = [valid |-> TRUE, allow |-> allow,
                        out |-> detect_latest_new_titles(txt_dir_exists, txt_files, allow)]
    /\ rd' = Idle
    /\ all_results' = EmptyDict
    /\ final_id_to_name' = EmptyDict
    /\ title_info' = EmptyDict
    /\ returned' = NoReturn
    /\ UNCHANGED << txt_dir_exists, txt_files >>

Init ==
    /\ txt_dir_exists = FALSE
    /\ txt_files = << >>
    /\ rd = Idle
    /\ all_results = EmptyDict
    /\ final_id_to_name = EmptyDict
    /\ title_info = EmptyDict
    /\ returned = NoReturn
    /\ new_titles = NoDetect
    /\ word_groups = << >>
    /\ filter_words = << >>
    /\ matched = NoMatch
    /\ counted = NoCount
    /\ PushIdle

Next ==
    \/ SaveSnapshot
    \/ ReadStart
    \/ ReadFile
    \/ ProcessSource
    \/ ReadReturn
    \/ DetectNew

Spec == Init /\ [][Next]_vars

\* ------------------------------------- read_all_today_titles as one function
RECURSIVE FoldSources(_, _, _)
FoldSources(m, titles_by_id, time_info) ==
    IF titles_by_id = << >> THEN m
    ELSE FoldSources(process_source_data(Head(titles_by_id).k, Head(titles_by_id).v,
                                         time_info, m),
                     Tail(titles_by_id), time_info)

\* lines 253-276 over the sorted file names; out = the three results
RECURSIVE FoldFiles(_, _, _, _)
FoldFiles(out, files, names, allow) ==
    IF names = << >> THEN out
    ELSE LET parsed == parse_file_titles(files[Head(names)])
             tbd    == FilterByAllow(parsed.titles_by_id, allow)
             nm     == IF allow.given
                       THEN DictFilter(parsed.id_to_name, DictKeys(tbd))
                       ELSE parsed.id_to_name
             m      == FoldSources([all_results |-> out.all_results,
                                    title_info |-> out.title_info], tbd, Head(names))
         IN FoldFiles([all_results |-> m.all_results,
                       final_id_to_name |-> DictUpdate(out.final_id_to_name, nm),
                       title_info |-> m.title_info],
                      files, Tail(names), allow)

read_all_today_titles(dir_exists, files, allow) ==
    IF ~dir_exists THEN EmptyOutput
    ELSE FoldFiles(EmptyOutput, files, SortedNames(DOMAIN files), allow)

\* ------------------------------------------ files with malformed units
\* title lines as they may stand in a damaged or hand-edited file: well-formed
\* lines, lines without a rank prefix, lines whose rank prefix int() rejects
DamagedLines(id) ==
    IF id = "s1"
    THEN { MkLine([tok |-> "1", url |-> "", mobile |-> ""], << "a" >>),
           MkLine([tok |-> "2", url |-> "u1", mobile |-> "m1"], << "a" >>),
           MkLine([tok |-> "", url |-> "", mobile |-> "m1"], << "A", " ", " ", "b" >>),
           MkLine([tok |-> "sup2", url |-> "u1", mobile |-> ""], << "a" >>),
           MkLine([tok |-> "sup2", url |-> "", mobile |-> ""], << "A", " ", " ", "b" >>) }
    ELSE { MkLine([tok |-> "2", url |-> "u1", mobile |-> "m1"], << "a" >>),
           MkLine([tok |-> "sup2", url |-> "u1", mobile |-> ""], << "a" >>) }

\* section lists within a budget of units: any lines, bare headers included,
\* one section per source id
DamagedSections(h, budget) ==
    LET Secs(id) == { x \in { Section(h, id, ls) :
                                ls \in UNION { [1..k -> DamagedLines(id)] : k \in 0..budget } } :
                        SectionUnits(x) <= budget }
    IN { << >> }
       \cup { << a >> : a \in Secs("s1") \cup Secs("s2") }
       \cup { p \in Secs("s1") \X Secs("s2") :
                 SectionUnits(p[1]) + SectionUnits(p[2]) <= budget }

\* a file with malformed units is found in the day directory at the next hour
SaveDamaged ==
    /\ UNCHANGED besideMerger
    /\ rd.phase # "reading"
    /\ Cardinality(DOMAIN txt_files) < MaxSnapshots
    /\ LET name   == format_time_filename(NextHour)
           budget == MaxUnits - DirUnits(txt_files, DOMAIN txt_files)
       IN \E secs \in DamagedSections(NextHour, budget) :
            txt_files' = [ n \in DOMAIN txt_files \cup {name} |->
                             IF n = name THEN [sections |-> secs] ELSE txt_files[n] ]
    /\ txt_dir_exists' = TRUE
    /\ rd' = Idle
    /\ all_results' = EmptyDict
    /\ final_id_to_name' = EmptyDict
    /\ title_info' = EmptyDict
    /\ returned' = NoReturn
    /\ new_titles' = NoDetect

NextParse ==
    \/ SaveDamaged
    \/ ReadStart
    \/ ReadFile
    \/ ProcessSource
    \/ ReadReturn

SpecParse == Init /\ [][NextParse]_vars

\* ------------------------------------------------------------- classifier
\* the letters titles and words are made of
Chars == { "a", "A", "b", " " }

MaxTitleLen == 2

\* the titles matches_word_groups is asked about
ProbeTitles == UNION { [1..n -> Chars] : n \in 0..MaxTitleLen }

\* word groups as the frequency-words file gives them
GroupMenu ==
    { [required |-> << >>, normal |-> << << "a" >> >>, group_key |-> "a"],
      [required |-> << << "B" >> >>, normal |-> << >>, group_key |-> "+B"],
      [required |-> << << "a" >> >>, normal |-> << << "c" >>, << "b" >> >>,
       group_key |-> "c b +a"] }

MaxGroups == 2

GroupLists == UNION { [1..n -> GroupMenu] : n \in 0..MaxGroups }

FilterLists == { << >>, << << "c" >>, << "B" >> >> }

\* the configuration is loaded: word groups and filter words
InitConfig ==
    /\ txt_dir_exists = FALSE
    /\ txt_files = << >>
    /\ rd = Idle
    /\ all_results = EmptyDict
    /\ final_id_to_name = EmptyDict
    /\ title_info = EmptyDict
    /\ returned = NoReturn
    /\ new_titles = NoDetect
    /\ word_groups \in GroupLists
    /\ filter_words \in FilterLists
    /\ matched = NoMatch
    /\ counted = NoCount
    /\ PushIdle

\* one call of matches_word_groups
Match ==
    /\ \E title \in ProbeTitles :
         matched' = [valid |-> TRUE, title |-> title,
                     result |-> matches_word_groups(title, word_groups, filter_words)]
    /\ UNCHANGED << mergerVars, configVars, counted, deliveryVars, outerVars >>

SpecMatch == InitConfig /\ [][Match]_vars

\* CONFIG["PLATFORMS"]: every source is configured
ConfiguredPlatforms == [given |-> TRUE, ids |-> Sources]

Modes == { "incremental", "current", "daily" }

\* is_first_crawl_today
is_first_crawl_today(dir_exists, files) ==
    IF ~dir_exists THEN TRUE ELSE Cardinality(DOMAIN files) <= 1

\* crawls a day in the runs of the classifier, and the lines they write
MaxStatSnapshots == 2

MaxStatUnits == 2

\* a crawl run saved its snapshot (save_titles_to_file)
SaveForStats ==
    /\ Cardinality(DOMAIN txt_files) < MaxStatSnapshots
    /\ WriteSnapshot(MaxStatUnits)
    /\ counted' = NoCount
    /\ UNCHANGED << configVars, matched, deliveryVars, outerVars >>

\* _load_analysis_data (main.py 166-187): the day's ledger and the new titles
LoadAnalysisData ==
    /\ rd.phase = "idle"
    /\ \E loaded \in { read_all_today_titles(txt_dir_exists, txt_files, ConfiguredPlatforms) } :
          /\ all_results' = loaded.all_results
          /\ final_id_to_name' = loaded.final_id_to_name
          /\ title_info' = loaded.title_info
    /\ new_titles' = [valid |-> TRUE, allow |-> ConfiguredPlatforms,
                      out |-> detect_latest_new_titles(txt_dir_exists, txt_files,
                                                       ConfiguredPlatforms)]
    /\ rd' = [Idle EXCEPT !.phase = "done", !.allow = ConfiguredPlatforms]
    /\ UNCHANGED << txt_dir_exists, txt_files, returned, besideMerger >>

RankThreshold == 5

\* count_word_frequency on what _load_analysis_data gave (main.py 189-215);
\* a further call on the same data gives the same record
CountWordFrequency ==
    /\ rd.phase = "done"
    /\ new_titles.valid
    /\ ~counted.valid
    /\ all_results # EmptyDict
    /\ \E mode \in Modes :
         LET args == [ results |-> all_results,
                       word_groups |-> word_groups,
                       filter_words |-> filter_words,
                       id_to_name |-> final_id_to_name,
                       title_info |-> title_info,
                       rank_threshold |-> RankThreshold,
                       new_titles |-> new_titles.out,
                       mode |-> mode,
                       is_first_today |-> is_first_crawl_today(txt_dir_exists, txt_files) ]
         IN counted' = [valid |-> TRUE, args |-> args, out |-> count_word_frequency(args)]
    /\ UNCHANGED << mergerVars, configVars, matched, deliveryVars, outerVars >>

NextStats ==
    \/ SaveForStats
    \/ LoadAnalysisData
    \/ CountWordFrequency

SpecStats == InitConfig /\ [][NextStats]_vars

\* --------------------------------------------------- send_to_notifications
\* the window as configured: padded or not
StartTimes == { << "0", "8", ":", "0", "0" >>, << "8", ":", "0", "0" >> }

EndTimes == { << "2", "2", ":", "0", "0" >> }

PushConfigs ==
    [ enabled : BOOLEAN, once_per_day : BOOLEAN, start : StartTimes, end : EndTimes,
      telegram : BOOLEAN, email : BOOLEAN, retention_days : { DefaultRetentionDays } ]

\* what an earlier process left as the record of the first day
InitPush ==
    /\ txt_dir_exists = FALSE
    /\ txt_files = << >>
    /\ rd = Idle
    /\ all_results = EmptyDict
    /\ final_id_to_name = EmptyDict
    /\ title_info = EmptyDict
    /\ returned = NoReturn
    /\ new_titles = NoDetect
    /\ word_groups = << >>
    /\ filter_words = << >>
    /\ matched = NoMatch
    /\ counted = NoCount
    /\ push_cfg \in PushConfigs
    /\ clock = [day |-> 1, tod |-> 1]
    /\ \E c \in { "absent", "pushed", "damaged" } :
          record_files = [NoRecords EXCEPT ![RecordName(1)] = c]
    /\ locked = {}
    /\ inv = NoCall
    /\ swept_from = NoRecords
    /\ push_history = NoHistory
    /\ pack = NoPack
    /\ OuterIdle

beside_push == << mergerVars, configVars, classifierVars, pack, outerVars >>

\* time passes: while no call runs, and while a channel is sending
Tick ==
    /\ inv.pc \in { "idle", "done", "email", "record" }
    /\ \/ /\ clock.tod < Len(TimesOfDay)
          /\ clock' = [clock EXCEPT !.tod = @ + 1]
       \/ /\ clock.tod = Len(TimesOfDay)
          /\ clock.day < MaxDay
          /\ clock' = [day |-> clock.day + 1, tod |-> 1]
    /\ UNCHANGED << push_cfg, record_files, locked, inv, swept_from, push_history, beside_push >>

\* variant: a channel that was tried counts
AnySuccess_AnyTried(call) == call.telegram # "none" \/ call.email # "none"

\* any(results.values())
AnySuccess(call) == call.telegram = "ok" \/ call.email = "ok"

\* send_to_notifications lines 22-41: the gate
SendStart ==
    /\ inv.pc \in { "idle", "done" }
    /\ LET call == [NoCall EXCEPT !.day = clock.day, !.tod = clock.tod,
                                  !.after_success = clock.day \in push_history.success,
                                  !.after_record = clock.day \in push_history.written,
                                  !.after_failure = /\ inv.gate = "allowed"
                                                    /\ inv.day = clock.day
                                                    /\ ~AnySuccess(inv)]
       IN IF push_cfg.enabled
          THEN \E order \in GlobOrders(record_files) :
                 LET swept == SweepRecords(order, record_files, locked, clock.day,
                                           push_cfg.retention_days)
                     seen == [call EXCEPT !.today_before = swept[RecordName(clock.day)]]
                 IN /\ record_files' = swept
                    /\ IF ~is_in_time_range(TimesOfDay[clock.tod], push_cfg.start, push_cfg.end)
                       THEN inv' = [seen EXCEPT !.pc = "done", !.gate = "denied"]
                       ELSE IF push_cfg.once_per_day /\ has_pushed_today(swept, clock.day)
                       THEN inv' = [seen EXCEPT !.pc = "done", !.gate = "denied"]
                       ELSE inv' = [seen EXCEPT !.pc = "telegram", !.gate = "allowed"]
          ELSE /\ record_files' = record_files
               /\ inv' = [call EXCEPT !.pc = "telegram", !.gate = "allowed",
                                      !.today_before = record_files[RecordName(clock.day)]]
    /\ UNCHANGED << push_cfg, clock, locked, swept_from, push_history, beside_push >>

\* lines 55-64: the Telegram channel, if configured, reports success or failure
SendTelegram ==
    /\ inv.pc = "telegram"
    /\ IF push_cfg.telegram
       THEN \E ok \in BOOLEAN :
              inv' = [inv EXCEPT !.pc = "email",
                                 !.telegram = IF ok THEN "ok" ELSE "failed"]
       ELSE inv' = [inv EXCEPT !.pc = "email"]
    /\ UNCHANGED << push_cfg, clock, record_files, locked, swept_from, push_history, beside_push >>

\* lines 67-76: the e-mail channel
SendEmail ==
    /\ inv.pc = "email"
    /\ IF push_cfg.email
       THEN \E ok \in BOOLEAN :
              inv' = [inv EXCEPT !.pc = "record",
                                 !.email = IF ok THEN "ok" ELSE "failed"]
       ELSE inv' = [inv EXCEPT !.pc = "record"]
    /\ UNCHANGED << push_cfg, clock, record_files, locked, swept_from, push_history, beside_push >>

\* history: the days on which a call with a successful channel returned, on
\* which a second one did, on which a record was written, and a second one
Delivered(h, day, success, written) ==
    [ success   |-> IF success THEN h.success \cup { day } ELSE h.success,
      resent    |-> IF success /\ day \in h.success THEN h.resent \cup { day } ELSE h.resent,
      written   |-> IF written THEN h.written \cup { day } ELSE h.written,
      rewritten |-> IF written /\ day \in h.written THEN h.rewritten \cup { day }
                    ELSE h.rewritten ]

\* lines 78-90: the record of the day, and the return
SendFinish ==
    /\ inv.pc = "record"
    /\ IF push_cfg.enabled /\ push_cfg.once_per_day /\ AnySuccess(inv)
       THEN \E order \in GlobOrders(record_files) : \E outcome \in WriteOutcomes :
              /\ record_files' = record_push(
                     SweepRecords(order, record_files, locked, clock.day,
                                  push_cfg.retention_days),
                     clock.day, outcome)
              /\ inv' = [inv EXCEPT !.pc = "done", !.wrote = outcome]
       ELSE /\ record_files' = record_files
            /\ inv' = [inv EXCEPT !.pc = "done"]
    /\ push_history' = Delivered(push_history, clock.day, AnySuccess(inv),
                                 inv'.wrote = "written")
    /\ UNCHANGED << push_cfg, clock, locked, swept_from, beside_push >>

NextPush ==
    \/ Tick
    \/ SendStart
    \/ SendTelegram
    \/ SendEmail
    \/ SendFinish

SpecPush == InitPush /\ [][NextPush]_vars

\* ------------------------------------------------------ PushRecordManager()
\* greatest configured retention, in days
MaxRetention == 1

\* a record directory left by earlier runs, some of it not deletable
InitSweep ==
    /\ txt_dir_exists = FALSE
    /\ txt_files = << >>
    /\ rd = Idle
    /\ all_results = EmptyDict
    /\ final_id_to_name = EmptyDict
    /\ title_info = EmptyDict
    /\ returned = NoReturn
    /\ new_titles = NoDetect
    /\ word_groups = << >>
    /\ filter_words = << >>
    /\ matched = NoMatch
    /\ counted = NoCount
    /\ \E r \in 0 .. MaxRetention : push_cfg = [NoPushConfig EXCEPT !.retention_days = r]
    /\ \E d \in 1 .. MaxDay : clock = [day |-> d, tod |-> 1]
    /\ record_files \in [RecordNames -> { "absent", "pushed", "damaged" }]
    /\ locked \in SUBSET RecordNames
    /\ inv = NoCall
    /\ swept_from = NoRecords
    /\ push_history = NoHistory
    /\ pack = NoPack
    /\ OuterIdle

\* __init__: ensure_record_dir, cleanup_old_records
Construct ==
    /\ \E order \in GlobOrders(record_files) :
         record_files' = SweepRecords(order, record_files, locked, clock.day,
                                      push_cfg.retention_days)
    /\ swept_from' = record_files
    /\ inv' = [NoCall EXCEPT !.pc = "constructed"]
    /\ UNCHANGED << push_cfg, clock, locked, push_history, beside_push >>

\* the next calendar day begins
NextDay ==
    /\ clock.day < MaxDay
    /\ clock' = [clock EXCEPT !.day = @ + 1]
    /\ inv' = NoCall
    /\ UNCHANGED << push_cfg, record_files, locked, swept_from, push_history, beside_push >>

NextSweep ==
    \/ Construct
    \/ NextDay

SpecSweep == InitSweep /\ [][NextSweep]_vars

\* ----------------------------------------------- split_content_into_batches
\* A text is kept as the sequence of the pieces it was concatenated from; a
\* piece is [kind, sec, item, bytes]: what it is, the group or source it
\* belongs to, the title it renders, and the length of its UTF-8 encoding.
\* Lengths are in small units, so that every budget from "nothing fits" to
\* "all fits in one batch" is gone through.
Piece(kind, sec, item, bytes) == [ kind |-> kind, sec |-> sec, item |-> item, bytes |-> bytes ]

base_header == << Piece("base_header", 0, 0, 2) >>

base_footer == << Piece("base_footer", 0, 0, 2) >>

stats_header == << Piece("stats_header", 0, 0, 2) >>

word_header(i) == << Piece("word_header", i, 0, 2) >>

\* a rendered title of a group: "  j. title\n", and "\n" more unless it is the last
stat_news_line(i, j, titles) ==
    << Piece("stat_item", i, j, IF j < titles THEN 3 ELSE 2) >>

\* lines 119-127: the first title of a group, nothing for a group without titles
first_news_line(i, titles) == IF titles > 0 THEN stat_news_line(i, 1, titles) ELSE << >>

separator == << Piece("separator", 0, 0, 2) >>

new_header == << Piece("new_header", 0, 0, 3) >>

source_header(i) == << Piece("source_header", i, 0, 2) >>

\* a rendered title of a source: "  j. title\n"
source_news_line(i, j) == << Piece("source_item", i, j, 2) >>

source_first_news_line(i, titles) == IF titles > 0 THEN source_news_line(i, 1) ELSE << >>

newline == << Piece("newline", 0, 0, 1) >>

failed_header == << Piece("failed_header", 0, 0, 3) >>

failed_line(i) == << Piece("failed_line", i, 0, 1) >>

\* lines 60-66: the placeholder sentence of the mode
simple_content(mode) ==
    IF mode = "incremental" THEN << Piece("no match, incremental mode", 0, 0, 4) >>
    ELSE IF mode = "current" THEN << Piece("no match, current mode", 0, 0, 3) >>
    ELSE << Piece("no match", 0, 0, 2) >>

\* len(text.encode("utf-8"))
RECURSIVE Bytes(_)
Bytes(text) == IF text = << >> THEN 0 ELSE Head(text).bytes + Bytes(Tail(text))

\* the packer's locals
Packer(batches, current_batch, has_content) ==
    [ batches |-> batches, current_batch |-> current_batch,
      current_batch_has_content |-> has_content ]

\* if current_batch_has_content: batches.append(current_batch + base_footer)
Flush(st) ==
    IF st.current_batch_has_content
    THEN Append(st.batches, st.current_batch \o base_footer)
    ELSE st.batches

\* len(test_content) + len(base_footer) >= max_bytes
Overflows(test_content, max_bytes) == Bytes(test_content) + Bytes(base_footer) >= max_bytes

\* variant: a text that does not fit a batch of its own is left out
Place_DropOversized(st, text, restart, max_bytes) ==
    IF Overflows(st.current_batch \o text, max_bytes)
    THEN IF Overflows(restart, max_bytes) THEN st
         ELSE Packer(Flush(st), restart, TRUE)
    ELSE Packer(st.batches, st.current_batch \o text, TRUE)

\* the text goes to the end of the batch, or the batch is closed and a new one
\* starts with restart
Place(st, text, restart, max_bytes) ==
    IF Overflows(st.current_batch \o text, max_bytes)
    THEN Packer(Flush(st), restart, TRUE)
    ELSE Packer(st.batches, st.current_batch \o text, TRUE)

\* variant: the header is placed, then the first title
PlaceWithFirst_Apart(st, header, first, prefix, max_bytes) ==
    LET headed == Place(st, header, prefix \o header, max_bytes)
    IN IF first = << >> THEN headed
       ELSE Place(headed, first, prefix \o first, max_bytes)

\* lines 129-145 and 220-235: the header with the first title, as one text
PlaceWithFirst(st, header, first, prefix, max_bytes) ==
    Place(st, header \o first, prefix \o header \o first, max_bytes)

\* lines 148-168: the titles from the second on, of group i
RECURSIVE PlaceStatTitles(_, _, _, _, _)
PlaceStatTitles(st, i, j, titles, max_bytes) ==
    IF j > titles THEN st
    ELSE PlaceStatTitles(
             Place(st, stat_news_line(i, j, titles),
                   base_header \o stats_header \o word_header(i) \o stat_news_line(i, j, titles),
                   max_bytes),
             i, j + 1, titles, max_bytes)

\* variant: the separator is added without the size test
PlaceSeparator_Unchecked(st, i, stats, max_bytes) ==
    IF i < Len(stats) THEN [st EXCEPT !.current_batch = @ \o separator] ELSE st

\* lines 171-178: the separator, kept only if it fits
PlaceSeparator(st, i, stats, max_bytes) ==
    IF i < Len(stats) /\ ~Overflows(st.current_batch \o separator, max_bytes)
    THEN [st EXCEPT !.current_batch = @ \o separator]
    ELSE st

\* lines 101-178: the groups from the i-th on
RECURSIVE PlaceStats(_, _, _, _)
PlaceStats(st, i, stats, max_bytes) ==
    IF i > Len(stats) THEN st
    ELSE LET first == PlaceWithFirst(st, word_header(i), first_news_line(i, stats[i]),
                                     base_header \o stats_header, max_bytes)
             rest == PlaceStatTitles(first, i, 2, stats[i], max_bytes)
         IN PlaceStats(PlaceSeparator(rest, i, stats, max_bytes), i + 1, stats, max_bytes)

\* lines 84-178
ProcessStats(st, stats, max_bytes) ==
    IF stats = << >> THEN st
    ELSE PlaceStats(Place(st, stats_header, base_header \o stats_header, max_bytes),
                    1, stats, max_bytes)

\* variant: a title that opens a batch comes without the headers above it
RECURSIVE PlaceSourceTitles_Bare(_, _, _, _, _)
PlaceSourceTitles_Bare(st, i, j, titles, max_bytes) ==
    IF j > titles THEN st
    ELSE PlaceSourceTitles_Bare(
             Place(st, source_news_line(i, j), base_header \o source_news_line(i, j),
                   max_bytes),
             i, j + 1, titles, max_bytes)

\* lines 237-257: the titles from the second on, of source i
RECURSIVE PlaceSourceTitles(_, _, _, _, _)
PlaceSourceTitles(st, i, j, titles, max_bytes) ==
    IF j > titles THEN st
    ELSE PlaceSourceTitles(
             Place(st, source_news_line(i, j),
                   base_header \o new_header \o source_header(i) \o source_news_line(i, j),
                   max_bytes),
             i, j + 1, titles, max_bytes)

\* lines 203-259: the sources from the i-th on
RECURSIVE PlaceSources(_, _, _, _)
PlaceSources(st, i, sources, max_bytes) ==
    IF i > Len(sources) THEN st
    ELSE LET first == PlaceWithFirst(st, source_header(i),
                                     source_first_news_line(i, sources[i]),
                                     base_header \o new_header, max_bytes)
             rest == PlaceSourceTitles(first, i, 2, sources[i], max_bytes)
         IN PlaceSources([rest EXCEPT !.current_batch = @ \o newline],
                         i + 1, sources, max_bytes)

\* lines 181-259
ProcessNewTitles(st, sources, max_bytes) ==
    IF sources = << >> THEN st
    ELSE PlaceSources(Place(st, new_header, base_header \o new_header, max_bytes),
                      1, sources, max_bytes)

\* lines 282-295
RECURSIVE PlaceFailed(_, _, _, _)
PlaceFailed(st, i, failed_ids, max_bytes) ==
    IF i > Len(failed_ids) THEN st
    ELSE PlaceFailed(
             Place(st, failed_line(i), base_header \o failed_header \o failed_line(i), max_bytes),
             i + 1, failed_ids, max_bytes)

\* lines 262-295
ProcessFailed(st, failed_ids, max_bytes) ==
    IF failed_ids = << >> THEN st
    ELSE PlaceFailed(Place(st, failed_header, base_header \o failed_header, max_bytes),
                     1, failed_ids, max_bytes)

\* report_data.stats and .new_titles are given by the number of titles of each
\* group and source, .failed_ids by the ids
\* variant: without the placeholder batch
split_content_into_batches_NoPlaceholder(report_data, max_bytes, mode) ==
    Flush(ProcessFailed(
        ProcessNewTitles(
            ProcessStats(Packer(<< >>, base_header, FALSE), report_data.stats, max_bytes),
            report_data.new_titles, max_bytes),
        report_data.failed_ids, max_bytes))

split_content_into_batches(report_data, max_bytes, mode) ==
    IF report_data.stats = << >> /\ report_data.new_titles = << >>
         /\ report_data.failed_ids = << >>
    THEN << base_header \o simple_content(mode) \o base_footer >>
    ELSE LET start == Packer(<< >>, base_header, FALSE)
             stats == ProcessStats(start, report_data.stats, max_bytes)
             news == ProcessNewTitles(stats, report_data.new_titles, max_bytes)
             failed == ProcessFailed(news, report_data.failed_ids, max_bytes)
         IN Flush(failed)

\* most groups, and most sources with new titles
MaxSections == 2

\* most titles of a group or source
MaxItems == 2

\* greatest byte budget
MaxBytes == 16

SeqsUpTo(S, n) == UNION { [1 .. k -> S] : k \in 0 .. n }

FailedLists == { << >>, << "s1" >>, << "s1", "s2" >> }

ReportDatas ==
    [ stats : SeqsUpTo(0 .. MaxItems, MaxSections),
      new_titles : SeqsUpTo(1 .. MaxItems, MaxSections),
      failed_ids : FailedLists ]

\* the arguments of a call; the mode is read for an empty report only (line 60)
InitPack ==
    /\ txt_dir_exists = FALSE
    /\ txt_files = << >>
    /\ rd = Idle
    /\ all_results = EmptyDict
    /\ final_id_to_name = EmptyDict
    /\ title_info = EmptyDict
    /\ returned = NoReturn
    /\ new_titles = NoDetect
    /\ word_groups = << >>
    /\ filter_words = << >>
    /\ matched = NoMatch
    /\ counted = NoCount
    /\ push_cfg = NoPushConfig
    /\ clock = [day |-> 1, tod |-> 1]
    /\ record_files = NoRecords
    /\ locked = {}
    /\ inv = NoCall
    /\ swept_from = NoRecords
    /\ push_history = NoHistory
    /\ \E report_data \in ReportDatas : \E max_bytes \in 0 .. MaxBytes :
         \E mode \in IF report_data = NoReport THEN Modes ELSE { "daily" } :
           pack = [NoPack EXCEPT !.report_data = report_data, !.max_bytes = max_bytes,
                                 !.mode = mode]
    /\ OuterIdle

\* the call
Split ==
    /\ ~pack.done
    /\ pack' = [pack EXCEPT !.done = TRUE,
                            !.batches = split_content_into_batches(pack.report_data,
                                                                   pack.max_bytes,
                                                                   pack.mode)]
    /\ UNCHANGED << mergerVars, configVars, classifierVars, pushVars, outerVars >>

NextPack == Split

SpecPack == InitPack /\ [][NextPack]_vars

\* --------------------------------------------------------- counts per group
\* group lists with a group that rejects, a group listed twice, and none
CountGroupLists ==
    LET a == [required |-> << >>, normal |-> << << "a" >> >>, group_key |-> "a"]
        B == [required |-> << << "B" >> >>, normal |-> << >>, group_key |-> "+B"]
        cba == [required |-> << << "a" >> >>, normal |-> << << "c" >>, << "b" >> >>,
                group_key |-> "c b +a"]
    IN { << >>, << B >>, << B, cba >>, << a, a >>, << cba, a >> }

InitCounts ==
    /\ txt_dir_exists = FALSE
    /\ txt_files = << >>
    /\ rd = Idle
    /\ all_results = EmptyDict
    /\ final_id_to_name = EmptyDict
    /\ title_info = EmptyDict
    /\ returned = NoReturn
    /\ new_titles = NoDetect
    /\ word_groups \in CountGroupLists
    /\ filter_words \in FilterLists
    /\ matched = NoMatch
    /\ counted = NoCount
    /\ PushIdle

SpecCounts == InitCounts /\ [][NextStats]_vars

\* ----------------------------------------------------------- report modes
\* the word groups of the runs that compare the report modes
ModeGroupLists ==
    { << >>,
      << [required |-> << >>, normal |-> << << "a" >> >>, group_key |-> "a"] >>,
      << [required |-> << << "B" >> >>, normal |-> << >>, group_key |-> "+B"],
         [required |-> << >>, normal |-> << << "a" >> >>, group_key |-> "a"] >> }

InitModes ==
    /\ txt_dir_exists = FALSE
    /\ txt_files = << >>
    /\ rd = Idle
    /\ all_results = EmptyDict
    /\ final_id_to_name = EmptyDict
    /\ title_info = EmptyDict
    /\ returned = NoReturn
    /\ new_titles = NoDetect
    /\ word_groups \in ModeGroupLists
    /\ filter_words = << >>
    /\ matched = NoMatch
    /\ counted = NoCount
    /\ PushIdle

\* _crawl_data: a crawl run saved its snapshot (main.py 357)
SaveForModes ==
    /\ WriteSnapshot(MaxUnits)
    /\ counted' = NoCount
    /\ UNCHANGED << configVars, matched, deliveryVars, outerVars >>

\* the titles a source reported, as crawl_websites keeps them: stripped, not
\* yet cleaned, with the rank of the item (data_fetcher.py 137-157)
RECURSIVE CrawlTitles(_)
CrawlTitles(lines) ==
    IF lines = << >> THEN EmptyDict
    ELSE LET ln == lines[Len(lines)]
         IN DictPut(CrawlTitles(SubSeq(lines, 1, Len(lines) - 1)), ln.title,
                    TitleData(IntOf(ln.tok), ln.url, ln.mobile))

\* results of the crawl whose snapshot is the file
RECURSIVE CrawlResults(_)
CrawlResults(sections) ==
    IF sections = << >> THEN EmptyDict
    ELSE LET sec == sections[Len(sections)]
         IN DictPut(CrawlResults(SubSeq(sections, 1, Len(sections) - 1)), sec.id,
                    CrawlTitles(sec.lines))

\* id_to_name of the crawl: the configured name, or the id itself
RECURSIVE CrawlNames(_)
CrawlNames(sections) ==
    IF sections = << >> THEN EmptyDict
    ELSE LET sec == sections[Len(sections)]
         IN DictPut(CrawlNames(SubSeq(sections, 1, Len(sections) - 1)), sec.id,
                    IF sec.name = "" THEN sec.id ELSE sec.name)

\* _prepare_current_title_info (main.py 189-206)
RECURSIVE PrepareTitles(_, _)
PrepareTitles(titles_data, time_info) ==
    IF titles_data = << >> THEN EmptyDict
    ELSE LET e == titles_data[Len(titles_data)]
         IN DictPut(PrepareTitles(SubSeq(titles_data, 1, Len(titles_data) - 1), time_info),
                    e.k, NewEntry(e.v, time_info))

RECURSIVE prepare_current_title_info(_, _)
prepare_current_title_info(results, time_info) ==
    IF results = << >> THEN EmptyDict
    ELSE LET e == results[Len(results)]
         IN DictPut(prepare_current_title_info(SubSeq(results, 1, Len(results) - 1), time_info),
                    e.k, PrepareTitles(e.v, time_info))

\* the file the last crawl wrote
LastWritten == format_time_filename(NextHour - 1)

\* _execute_mode_strategy, report mode incremental or daily, up to the call of
\* the pipeline (main.py 362-367, 392): the diff, the second save, which writes
\* the same text under the same name while the minute has not turned (SpecRun
\* has the other case), and the crawl's own titles as the ledger
PrepareRealtime ==
    /\ rd.phase = "idle"
    /\ txt_files # << >>
    /\ new_titles' = [valid |-> TRUE, allow |-> ConfiguredPlatforms,
                      out |-> detect_latest_new_titles(txt_dir_exists, txt_files,
                                                       ConfiguredPlatforms)]
    /\ \E results \in { CrawlResults(txt_files[LastWritten].sections) } :
          /\ all_results' = results
          /\ title_info' = prepare_current_title_info(results, LastWritten)
    /\ final_id_to_name' = CrawlNames(txt_files[LastWritten].sections)
    /\ rd' = [Idle EXCEPT !.phase = "realtime", !.allow = ConfiguredPlatforms]
    /\ UNCHANGED << txt_dir_exists, txt_files, returned, besideMerger >>

RealtimeModes == { "incremental", "daily" }

\* _execute_mode_strategy, the call of _run_analysis_pipeline (main.py 393-396)
CountRealtime ==
    /\ rd.phase = "realtime"
    /\ ~counted.valid
    /\ \E mode \in RealtimeModes :
         LET args == [ results |-> all_results,
                       word_groups |-> word_groups,
                       filter_words |-> filter_words,
                       id_to_name |-> final_id_to_name,
                       title_info |-> title_info,
                       rank_threshold |-> RankThreshold,
                       new_titles |-> new_titles.out,
                       mode |-> mode,
                       is_first_today |-> is_first_crawl_today(txt_dir_exists, txt_files) ]
         IN counted' = [valid |-> TRUE, args |-> args, out |-> count_word_frequency(args)]
    /\ UNCHANGED << mergerVars, configVars, matched, deliveryVars, outerVars >>

NextModes ==
    \/ SaveForModes
    \/ LoadAnalysisData
    \/ CountWordFrequency
    \/ PrepareRealtime
    \/ CountRealtime

SpecModes == InitModes /\ [][NextModes]_vars

\* ------------------------------------------------------------ crawl_websites
\* data_fetcher.py 102-173 and vietnam_fetcher.py 113-198.  A source's titles
\* are not looked into here: results[id] is "titles" when the loop over the
\* items ended, "partial" when an item raised after line 137 (157) had made the
\* entry.
MaxSources == 3

AllSourceIds == << "s1", "s2", "s3", "s4", "s5" >>

SourceIds == { AllSourceIds[n] : n \in 1 .. MaxSources }

\* ids_list: the configured platforms, each id once
IdLists ==
    UNION { { l \in [1 .. n -> SourceIds] : \A a, b \in 1 .. n : a # b => l[a] # l[b] } :
            n \in 0 .. MaxSources }

Fetchers == { "DataFetcher", "VietnamDataFetcher" }

\* what fetch_data gives for an id and how the loop over the items ends:
\* "None" (the retries are used up, or the id has no scraper), "items" (every
\* item is a dict), "bad items" (the text parsed in fetch_data, but "items" is
\* not a list of dicts: the API's answer is not checked further).  The scrapers
\* build their items themselves, as dicts.  json.loads cannot fail on a text
\* that fetch_data has loaded (lines 158-160, 176-178).
Responses(fetcher, scrapers, id_value) ==
    IF fetcher = "DataFetcher" THEN { "None", "items", "bad items" }
    ELSE IF id_value \in scrapers THEN { "None", "items" }
    ELSE { "None" }

\* lines 125-129 and 142-149
name_of(c, id_value) ==
    IF c.named THEN [of |-> id_value, from |-> "config"]
    ELSE IF c.fetcher = "VietnamDataFetcher" /\ id_value \in c.scrapers
    THEN [of |-> id_value, from |-> "source_name"]
    ELSE [of |-> id_value, from |-> "id"]

\* one pass of the loop, lines 124-165 and 141-183
crawl_one(c, response) ==
    LET id_value == c.ids_list[c.i]
        named == [c EXCEPT !.id_to_name = DictPut(c.id_to_name, id_value, name_of(c, id_value)),
                           !.i = c.i + 1]
    IN CASE response = "None" ->
              [named EXCEPT !.failed_ids = Append(c.failed_ids, id_value)]
         [] response = "items" ->
              [named EXCEPT !.results = DictPut(c.results, id_value, "titles")]
         [] response = "bad items" ->
              [named EXCEPT !.results = DictPut(c.results, id_value, "partial"),
                            !.failed_ids = Append(c.failed_ids, id_value)]

\* vietnam_fetcher.py 135-137
no_scrapers(c) == c.fetcher = "VietnamDataFetcher" /\ c.scrapers = {}

InitCrawl ==
    /\ txt_dir_exists = FALSE
    /\ txt_files = << >>
    /\ rd = Idle
    /\ all_results = EmptyDict
    /\ final_id_to_name = EmptyDict
    /\ title_info = EmptyDict
    /\ returned = NoReturn
    /\ new_titles = NoDetect
    /\ word_groups = << >>
    /\ filter_words = << >>
    /\ matched = NoMatch
    /\ counted = NoCount
    /\ push_cfg = NoPushConfig
    /\ clock = [day |-> 1, tod |-> 1]
    /\ record_files = NoRecords
    /\ locked = {}
    /\ inv = NoCall
    /\ swept_from = NoRecords
    /\ push_history = NoHistory
    /\ pack = NoPack
    /\ \E fetcher \in Fetchers : \E ids_list \in IdLists : \E named \in BOOLEAN :
         \E scrapers \in IF fetcher = "DataFetcher" THEN { {} } ELSE SUBSET SourceIds :
           crawl = [NoCrawl EXCEPT !.fetcher = fetcher, !.ids_list = ids_list,
                                   !.named = named, !.scrapers = scrapers]
    /\ pipeline = NoRun
    /\ cache = NoCache

beside_crawl == << mergerVars, configVars, classifierVars, deliveryVars, pipeline, cache >>

\* the early return of the scraper fetcher
ReturnNoScrapers ==
    /\ ~crawl.returned
    /\ no_scrapers(crawl)
    /\ crawl' = [crawl EXCEPT !.returned = TRUE]
    /\ UNCHANGED beside_crawl

CrawlOne ==
    /\ ~crawl.returned
    /\ ~no_scrapers(crawl)
    /\ crawl.i <= Len(crawl.ids_list)
    /\ \E response \in Responses(crawl.fetcher, crawl.scrapers, crawl.ids_list[crawl.i]) :
         crawl' = crawl_one(crawl, response)
    /\ UNCHANGED beside_crawl

CrawlReturn ==
    /\ ~crawl.returned
    /\ ~no_scrapers(crawl)
    /\ crawl.i > Len(crawl.ids_list)
    /\ crawl' = [crawl EXCEPT !.returned = TRUE]
    /\ UNCHANGED beside_crawl

NextCrawl ==
    \/ ReturnNoScrapers
    \/ CrawlOne
    \/ CrawlReturn

SpecCrawl == InitCrawl /\ [][NextCrawl]_vars

\* ----------------------------------------------------------- NewsAnalyzer.run
\* main.py 312-444.  The clock counts ticks of half a minute; a snapshot file
\* is named by the minute.  A crawl gives, for each configured source, its
\* titles or a failure; a source's titles are the same headline in every run.
MaxRuns == 2

LastTick == 3

TicksPerMinute == 2

\* format_time_filename at a tick (time_utils.py 31-38): hour and minute, no seconds
FileMinute(now) == now \div TicksPerMinute

Minutes == { FileMinute(t) : t \in 0 .. LastTick }

NoFile == [saved |-> FALSE, titles |-> {}, failed |-> {}]

\* data_processor.py 15-70: open(file_path, "w") under the name of the minute
save_titles_to_file(files, now, results, failed_ids) ==
    [files EXCEPT ![FileMinute(now)] =
        [saved |-> TRUE, titles |-> results, failed |-> failed_ids]]

\* the sources some file of the day has titles of (read_all_today_titles)
SourcesOfDay(files) == UNION { files[m].titles : m \in DOMAIN files }

\* main.py 166-187: None when the day's files give no titles
load_analysis_data(files) == IF SourcesOfDay(files) = {} THEN "None" ELSE "data"

\* the ledger count of a source's headline: once per file that has it
\* (data_processor.py 164-230, process_source_data)
LedgerCount(files, s) ==
    Cardinality({ m \in DOMAIN files : files[m].saved /\ s \in files[m].titles })

NoOutcome == [aborted |-> FALSE, failed |-> {}, sent |-> {}, html_failed |-> {}]

\* main.py 362-434 after the second save: what the run sent, or the raise of
\* line 395.  valid_realtime and valid_summary are _has_valid_content for the
\* two reports.
execute_mode_strategy(mode, notify, files, failed_ids, valid_realtime, valid_summary) ==
    LET realtime == IF notify /\ valid_realtime
                    THEN { [report_type |-> "realtime", failed_ids |-> failed_ids] }
                    ELSE {}
        \* _generate_summary_report, lines 250-272: failed_ids=[]
        summary == IF load_analysis_data(files) # "None" /\ notify /\ valid_summary
                   THEN { [report_type |-> "summary", failed_ids |-> {}] }
                   ELSE {}
    IN CASE mode = "current" ->
              IF load_analysis_data(files) = "None"
              THEN [NoOutcome EXCEPT !.aborted = TRUE, !.failed = failed_ids]
              ELSE [NoOutcome EXCEPT !.failed = failed_ids, !.sent = realtime,
                                     !.html_failed = failed_ids]
         [] mode = "incremental" ->
              [NoOutcome EXCEPT !.failed = failed_ids, !.sent = realtime,
                                !.html_failed = failed_ids]
         [] mode = "daily" ->
              [NoOutcome EXCEPT !.failed = failed_ids, !.sent = summary,
                                !.html_failed = failed_ids]

\* a constructed NewsAnalyzer between runs
RunIdle(mode, notify) ==
    [ pc |-> "idle", mode |-> mode, notify |-> notify, now |-> 0,
      files |-> [m \in Minutes |-> NoFile],
      results |-> {}, failed_ids |-> {}, first_file |-> 0, second_file |-> 0,
      runs |-> 0, contained |-> [s \in Sources |-> 0], two_files |-> FALSE,
      overwrote |-> FALSE, last |-> NoOutcome ]

InitRun ==
    /\ txt_dir_exists = FALSE
    /\ txt_files = << >>
    /\ rd = Idle
    /\ all_results = EmptyDict
    /\ final_id_to_name = EmptyDict
    /\ title_info = EmptyDict
    /\ returned = NoReturn
    /\ new_titles = NoDetect
    /\ word_groups = << >>
    /\ filter_words = << >>
    /\ matched = NoMatch
    /\ counted = NoCount
    /\ push_cfg = NoPushConfig
    /\ clock = [day |-> 1, tod |-> 1]
    /\ record_files = NoRecords
    /\ locked = {}
    /\ inv = NoCall
    /\ swept_from = NoRecords
    /\ push_history = NoHistory
    /\ pack = NoPack
    /\ crawl = NoCrawl
    /\ \E mode \in Modes : \E notify \in BOOLEAN : pipeline = RunIdle(mode, notify)
    /\ cache = NoCache

beside_run == << mergerVars, configVars, classifierVars, deliveryVars, crawl, cache >>

\* time passes, at any point of a run and between runs
TickRun ==
    /\ pipeline.pc # "none"
    /\ pipeline.now < LastTick
    /\ pipeline' = [pipeline EXCEPT !.now = pipeline.now + 1]
    /\ UNCHANGED beside_run

\* _crawl_data, lines 312-360: any subset of the sources fails; the first save
CrawlData ==
    /\ pipeline.pc = "idle"
    /\ pipeline.runs < MaxRuns
    /\ \E failed_ids \in SUBSET Sources :
         LET results == Sources \ failed_ids
             name == FileMinute(pipeline.now)
         IN pipeline' = [pipeline EXCEPT
                !.pc = "crawled",
                !.results = results,
                !.failed_ids = failed_ids,
                !.first_file = name,
                !.overwrote = pipeline.files[name].saved,
                !.files = save_titles_to_file(pipeline.files, pipeline.now, results, failed_ids)]
    /\ UNCHANGED beside_run

\* _execute_mode_strategy, lines 364-367: the second save
SaveAgain ==
    /\ pipeline.pc = "crawled"
    /\ LET name == FileMinute(pipeline.now)
       IN pipeline' = [pipeline EXCEPT
              !.pc = "saved",
              !.second_file = name,
              !.two_files = (name # pipeline.first_file),
              !.files = save_titles_to_file(pipeline.files, pipeline.now,
                                            pipeline.results, pipeline.failed_ids)]
    /\ UNCHANGED beside_run

\* _execute_mode_strategy, lines 368-434, and the return or raise of run.  A
\* report has valid content only when there are titles to match.
Report ==
    /\ pipeline.pc = "saved"
    /\ \E valid_realtime \in IF pipeline.mode = "current"
                             THEN { FALSE, SourcesOfDay(pipeline.files) # {} }
                             ELSE { FALSE, pipeline.results # {} } :
       \E valid_summary \in { FALSE, SourcesOfDay(pipeline.files) # {} } :
         pipeline' = [pipeline EXCEPT
             !.pc = "idle",
             !.runs = pipeline.runs + 1,
             !.contained = [s \in Sources |->
                              pipeline.contained[s] + IF s \in pipeline.results THEN 1 ELSE 0],
             !.last = execute_mode_strategy(pipeline.mode, pipeline.notify, pipeline.files,
                                            pipeline.failed_ids, valid_realtime,
                                            valid_summary)]
    /\ UNCHANGED beside_run

NextRun ==
    \/ TickRun
    \/ CrawlData
    \/ SaveAgain
    \/ Report

SpecRun == InitRun /\ [][NextRun]_vars

\* --------------------------------------------------------------- CacheService
\* mcp_server/services/cache_service.py.  Every method runs its body under
\* self._lock; the body is modelled statement by statement, and the clock may
\* advance between any two statements.  A dict is a function with a marker for
\* the keys it does not have.
MaxTime == 3

Threads == { 1, 2 }

Keys == { "k1", "k2" }

Values == { "v1", "v2" }

Ttls == { 1, 2 }

NoValue == "absent"

NoTime == 0 - 1

KeysOf(d, none) == { k \in DOMAIN d : d[k] # none }

Calls ==
    [ op : { "get" }, key : Keys, value : { NoValue }, ttl : Ttls ]
      \cup [ op : { "set" }, key : Keys, value : Values, ttl : { 0 } ]
      \cup [ op : { "delete" }, key : Keys, value : { NoValue }, ttl : { 0 } ]
      \cup [ op : { "clear" }, key : { "k1" }, value : { NoValue }, ttl : { 0 } ]
      \cup [ op : { "cleanup_expired" }, key : { "k1" }, value : { NoValue }, ttl : Ttls ]

NoArgsOfCall == [ op |-> "none", key |-> "k1", value |-> NoValue, ttl |-> 0 ]

\* what the history says of a key: its most recent set, and what removed the
\* entry since ("no", "delete", "clear", "expired")
NeverSet == [ set |-> FALSE, value |-> NoValue, at |-> 0, dropped |-> "no" ]

ThreadIdle ==
    [ pc |-> "idle", call |-> NoArgsOfCall, result |-> "none", at |-> 0, seen |-> NeverSet,
      expired_keys |-> {}, current |-> "k1" ]

\* CacheService(), lines 15-19, and threads that hold a reference to it
NewCache ==
    [ pc |-> "ready", time |-> 0, lock |-> 0,
      cache |-> [k \in Keys |-> NoValue],
      timestamps |-> [k \in Keys |-> NoTime],
      threads |-> [t \in Threads |-> ThreadIdle],
      history |-> [k \in Keys |-> NeverSet] ]

\* the first statement of each method's body
first_statement(op) ==
    CASE op = "get" -> "get: if key in self._cache"
      [] op = "set" -> "set: self._cache[key] = value"
      [] op = "delete" -> "delete: if key in self._cache"
      [] op = "clear" -> "clear: self._cache.clear()"
      [] op = "cleanup_expired" -> "cleanup_expired: expired_keys"

\* with self._lock: the lock can be taken
lock_free_Ignored(c) == TRUE
lock_free(c) == c.lock = 0

InitCache ==
    /\ txt_dir_exists = FALSE
    /\ txt_files = << >>
    /\ rd = Idle
    /\ all_results = EmptyDict
    /\ final_id_to_name = EmptyDict
    /\ title_info = EmptyDict
    /\ returned = NoReturn
    /\ new_titles = NoDetect
    /\ word_groups = << >>
    /\ filter_words = << >>
    /\ matched = NoMatch
    /\ counted = NoCount
    /\ push_cfg = NoPushConfig
    /\ clock = [day |-> 1, tod |-> 1]
    /\ record_files = NoRecords
    /\ locked = {}
    /\ inv = NoCall
    /\ swept_from = NoRecords
    /\ push_history = NoHistory
    /\ pack = NoPack
    /\ crawl = NoCrawl
    /\ pipeline = NoRun
    /\ cache = NewCache

beside_cache == << mergerVars, configVars, classifierVars, deliveryVars, crawl, pipeline >>

\* time.time() advances
TickCache ==
    /\ cache.pc = "ready"
    /\ cache.time < MaxTime
    /\ cache' = [cache EXCEPT !.time = cache.time + 1]
    /\ UNCHANGED beside_cache

\* a thread calls a method and enters its with-block
Enter(t) ==
    /\ cache.pc = "ready"
    /\ cache.threads[t].pc = "idle"
    /\ lock_free(cache)
    /\ \E call \in Calls :
         cache' = [cache EXCEPT !.lock = t,
                                !.threads[t] = [ThreadIdle EXCEPT !.pc = first_statement(call.op),
                                                                  !.call = call]]
    /\ UNCHANGED beside_cache

\* the with-block is left: the lock is released and the method returns
Leave(t) ==
    /\ cache.pc = "ready"
    /\ cache.threads[t].pc = "return"
    /\ cache' = [cache EXCEPT !.lock = IF cache.lock = t THEN 0 ELSE cache.lock,
                              !.threads[t] = ThreadIdle]
    /\ UNCHANGED beside_cache

\* get, lines 32-41
get_step(c, t) ==
    LET th == c.threads[t]
        key == th.call.key
    IN CASE th.pc = "get: if key in self._cache" ->
              IF c.cache[key] = NoValue
              THEN [c EXCEPT !.threads[t].pc = "return", !.threads[t].result = "None",
                             !.threads[t].at = c.time, !.threads[t].seen = c.history[key]]
              ELSE IF c.timestamps[key] = NoTime
              THEN [c EXCEPT !.threads[t].pc = "return", !.threads[t].result = "KeyError",
                             !.threads[t].at = c.time, !.threads[t].seen = c.history[key]]
              ELSE IF c.time - c.timestamps[key] < th.call.ttl
              THEN [c EXCEPT !.threads[t].pc = "return", !.threads[t].result = c.cache[key],
                             !.threads[t].at = c.time, !.threads[t].seen = c.history[key]]
              ELSE [c EXCEPT !.threads[t].pc = "get: del self._cache[key]",
                             !.threads[t].at = c.time, !.threads[t].seen = c.history[key]]
         [] th.pc = "get: del self._cache[key]" ->
              IF c.cache[key] = NoValue
              THEN [c EXCEPT !.threads[t].pc = "return", !.threads[t].result = "KeyError"]
              ELSE [c EXCEPT !.cache[key] = NoValue,
                             !.threads[t].pc = "get: del self._timestamps[key]"]
         [] th.pc = "get: del self._timestamps[key]" ->
              IF c.timestamps[key] = NoTime
              THEN [c EXCEPT !.threads[t].pc = "return", !.threads[t].result = "KeyError"]
              ELSE [c EXCEPT !.timestamps[key] = NoTime,
                             !.history[key].dropped = "expired",
                             !.threads[t].pc = "return", !.threads[t].result = "None"]

\* set, lines 51-53
set_step(c, t) ==
    LET th == c.threads[t]
        key == th.call.key
    IN CASE th.pc = "set: self._cache[key] = value" ->
              [c EXCEPT !.cache[key] = th.call.value,
                        !.threads[t].pc = "set: self._timestamps[key] = time.time()"]
         [] th.pc = "set: self._timestamps[key] = time.time()" ->
              [c EXCEPT !.timestamps[key] = c.time,
                        !.history[key] = [set |-> TRUE, value |-> th.call.value,
                                          at |-> c.time, dropped |-> "no"],
                        !.threads[t].pc = "return", !.threads[t].result = "None"]

\* delete, lines 65-70
delete_step(c, t) ==
    LET th == c.threads[t]
        key == th.call.key
    IN CASE th.pc = "delete: if key in self._cache" ->
              IF c.cache[key] = NoValue
              THEN [c EXCEPT !.threads[t].pc = "return", !.threads[t].result = "False"]
              ELSE [c EXCEPT !.cache[key] = NoValue,
                             !.threads[t].pc = "delete: del self._timestamps[key]"]
         [] th.pc = "delete: del self._timestamps[key]" ->
              IF c.timestamps[key] = NoTime
              THEN [c EXCEPT !.threads[t].pc = "return", !.threads[t].result = "KeyError"]
              ELSE [c EXCEPT !.timestamps[key] = NoTime,
                             !.history[key].dropped = "delete",
                             !.threads[t].pc = "return", !.threads[t].result = "True"]

\* clear, lines 74-76
clear_step(c, t) ==
    LET th == c.threads[t]
    IN CASE th.pc = "clear: self._cache.clear()" ->
              [c EXCEPT !.cache = [k \in Keys |-> NoValue],
                        !.threads[t].pc = "clear: self._timestamps.clear()"]
         [] th.pc = "clear: self._timestamps.clear()" ->
              [c EXCEPT !.timestamps = [k \in Keys |-> NoTime],
                        !.history = [k \in Keys |-> [c.history[k] EXCEPT !.dropped = "clear"]],
                        !.threads[t].pc = "return", !.threads[t].result = "None"]

\* cleanup_expired, lines 88-99; the keys are deleted in some order
cleanup_expired_step(c, t, key) ==
    LET th == c.threads[t]
    IN CASE th.pc = "cleanup_expired: expired_keys" ->
              LET expired_keys == { k \in KeysOf(c.timestamps, NoTime) :
                                      c.time - c.timestamps[k] >= th.call.ttl }
              IN [c EXCEPT !.threads[t].expired_keys = expired_keys,
                           !.threads[t].pc = IF expired_keys = {} THEN "return"
                                             ELSE "cleanup_expired: del self._cache[key]",
                           !.threads[t].result = "0"]
         [] th.pc = "cleanup_expired: del self._cache[key]" ->
              IF c.cache[key] = NoValue
              THEN [c EXCEPT !.threads[t].pc = "return", !.threads[t].result = "KeyError"]
              ELSE [c EXCEPT !.cache[key] = NoValue,
                             !.threads[t].current = key,
                             !.threads[t].pc = "cleanup_expired: del self._timestamps[key]"]
         [] th.pc = "cleanup_expired: del self._timestamps[key]" ->
              LET cur == th.current
                  rest == th.expired_keys \ { cur }
              IN IF c.timestamps[cur] = NoTime
                 THEN [c EXCEPT !.threads[t].pc = "return", !.threads[t].result = "KeyError"]
                 ELSE [c EXCEPT !.timestamps[cur] = NoTime,
                                !.history[cur].dropped = "expired",
                                !.threads[t].expired_keys = rest,
                                !.threads[t].pc = IF rest = {} THEN "return"
                                                  ELSE "cleanup_expired: del self._cache[key]",
                                !.threads[t].result = "n"]

\* the next statement of the thread's method
Statement(t) ==
    /\ cache.pc = "ready"
    /\ cache.threads[t].pc \notin { "idle", "return" }
    /\ LET op == cache.threads[t].call.op
       IN CASE op = "get" -> cache' = get_step(cache, t)
            [] op = "set" -> cache' = set_step(cache, t)
            [] op = "delete" -> cache' = delete_step(cache, t)
            [] op = "clear" -> cache' = clear_step(cache, t)
            [] op = "cleanup_expired" ->
                 \E key \in IF cache.threads[t].pc = "cleanup_expired: del self._cache[key]"
                            THEN cache.threads[t].expired_keys ELSE { "k1" } :
                   cache' = cleanup_expired_step(cache, t, key)
    /\ UNCHANGED beside_cache

NextCache ==
    \/ TickCache
    \/ \E t \in Threads : Enter(t)
    \/ \E t \in Threads : Statement(t)
    \/ \E t \in Threads : Leave(t)

SpecCache == InitCache /\ [][NextCache]_vars

\* =========================================================== properties
\* What the files of the day say, read off the file text without the readers.
CleanTitles == { clean_title(t) : t \in RawTitles }

HourOf(name) == name[1] * 10 + name[2]

LineParses(line) == ~IsDigitTok(line.tok) \/ IntParses(line.tok)

\* the title lines of source s in a file that carry title t
LinesOf(file, s, t) ==
    { ln \in UNION { { file.sections[i].lines[j] : j \in DOMAIN file.sections[i].lines } :
                       i \in { x \in DOMAIN file.sections : file.sections[x].id = s } } :
        LineParses(ln) /\ clean_title(ln.title) = t }

SnapshotHas(file, s, t) == LinesOf(file, s, t) # {}

\* the snapshots of the day, within the allow-list, in which t appears under s
Appearances(s, t, allow) ==
    { n \in DOMAIN txt_files : InAllow(allow, s) /\ SnapshotHas(txt_files[n], s, t) }

Earliest(S) == CHOOSE n \in S : \A m \in S : HourOf(n) <= HourOf(m)

Latest(S) == CHOOSE n \in S : \A m \in S : HourOf(m) <= HourOf(n)

LedgerKeys == { << s, t >> \in Sources \X CleanTitles :
                  DictHas(title_info, s) /\ DictHas(DictGet(title_info, s), t) }

Entry(s, t) == DictGet(DictGet(title_info, s), t)

ReadDone == rd.phase = "done"

\* C1: after read_all_today_titles has folded the day's snapshots, every ledger
\* entry (source, title) has count = the number of snapshots in which the title
\* appears under the source, first_time = the time of the earliest of them,
\* last_time = the time of the latest of them, and first_time <= last_time.
C1_LedgerCountsAndTimes ==
    ReadDone =>
        \A p \in LedgerKeys :
            LET S == Appearances(p[1], p[2], rd.allow)
                e == Entry(p[1], p[2])
            IN /\ S # {}
               /\ e.count = Cardinality(S)
               /\ e.first_time = Earliest(S)
               /\ e.last_time = Latest(S)
               /\ LexLeq(e.first_time, e.last_time)

\* the spec's example: three snapshots, a title in the first and the third only
C1_Witness ==
    /\ ReadDone
    /\ Cardinality(DOMAIN txt_files) = 3
    /\ \E p \in LedgerKeys :
          /\ Entry(p[1], p[2]).count = 2
          /\ Entry(p[1], p[2]).first_time = format_time_filename(FirstHour)
          /\ Entry(p[1], p[2]).last_time = format_time_filename(FirstHour + 2)

IsPrefix(a, b) == Len(a) <= Len(b) /\ SubSeq(b, 1, Len(a)) = a

NoDuplicates(q) == \A i, j \in DOMAIN q : q[i] = q[j] => i = j

\* the ranks the call of process_source_data about to run carries for (s, t)
IncomingRanks(s, t) ==
    IF rd.queue # << >> /\ Head(rd.queue).k = s /\ DictHas(Head(rd.queue).v, t)
    THEN DictGet(Head(rd.queue).v, t).ranks
    ELSE << >>

\* the values of q that are not in have, in order
RECURSIVE Fresh(_, _)
Fresh(q, have) ==
    IF q = << >> THEN << >>
    ELSE IF Head(q) \in have THEN Fresh(Tail(q), have)
         ELSE << Head(q) >> \o Fresh(Tail(q), have \cup {Head(q)})

Range(q) == { q[i] : i \in DOMAIN q }

\* the rank of t under s in a snapshot (the last line of the section wins)
RankIn(file, s, t) ==
    LET ln == CHOOSE x \in LinesOf(file, s, t) : TRUE
    IN IF IsDigitTok(ln.tok) THEN IntOf(ln.tok) ELSE 1

\* C2: at every step of the merge a ledger entry's ranks are duplicate-free and
\* change only by appending, in order, the ranks of the current snapshot that
\* are not yet present; a title seen with rank r1 and later with rank r2 ends
\* with ranks [r1, r2] if r1 # r2 and [r1] if r1 = r2.
C2_RanksAppendOnly ==
    /\ [](\A p \in LedgerKeys : NoDuplicates(Entry(p[1], p[2]).ranks))
    /\ [][ (rd.phase = "reading" /\ rd'.phase = "reading") =>
             \A p \in LedgerKeys :
                 /\ DictHas(title_info', p[1])
                 /\ DictHas(DictGet(title_info', p[1]), p[2])
                 /\ DictGet(DictGet(title_info', p[1]), p[2]).ranks
                      = Entry(p[1], p[2]).ranks
                        \o Fresh(IncomingRanks(p[1], p[2]), Range(Entry(p[1], p[2]).ranks))
          ]_vars
    /\ [](ReadDone =>
            \A p \in LedgerKeys :
                LET S == Appearances(p[1], p[2], rd.allow)
                IN Entry(p[1], p[2]).count = 2 =>
                     LET r1 == RankIn(txt_files[Earliest(S)], p[1], p[2])
                         r2 == RankIn(txt_files[Latest(S)], p[1], p[2])
                     IN Entry(p[1], p[2]).ranks
                          = IF r1 # r2 THEN << r1, r2 >> ELSE << r1 >>)

\* a title seen twice with different ranks, the larger rank first
C2_Witness ==
    /\ ReadDone
    /\ \E p \in LedgerKeys :
          Entry(p[1], p[2]).count = 2 /\ Entry(p[1], p[2]).ranks = << 2, 1 >>

\* the url (field f of a line) of t under s in a snapshot
FieldIn(file, s, t, f) == (CHOOSE x \in LinesOf(file, s, t) : TRUE)[f]

\* the value of field f in the earliest appearance where it is not empty
FirstNonEmpty(S, s, t, f) ==
    LET N == { n \in S : FieldIn(txt_files[n], s, t, f) # "" }
    IN IF N = {} THEN "" ELSE FieldIn(txt_files[Earliest(N)], s, t, f)

\* C3: a ledger entry's url, and independently its mobileUrl, is the value of
\* the earliest snapshot in which the title appeared with a non-empty value,
\* empty only if every appearance was empty; once non-empty it is never
\* changed by a later snapshot, blank or different.
C3_FirstNonEmptyUrlWins ==
    /\ [](ReadDone =>
            \A p \in LedgerKeys :
                LET S == Appearances(p[1], p[2], rd.allow)
                IN /\ Entry(p[1], p[2]).url = FirstNonEmpty(S, p[1], p[2], "url")
                   /\ Entry(p[1], p[2]).mobileUrl = FirstNonEmpty(S, p[1], p[2], "mobile"))
    /\ [][ (rd.phase = "reading" /\ rd'.phase = "reading") =>
             \A p \in LedgerKeys :
                 LET e  == Entry(p[1], p[2])
                     e2 == DictGet(DictGet(title_info', p[1]), p[2])
                 IN /\ e.url # "" => e2.url = e.url
                    /\ e.mobileUrl # "" => e2.mobileUrl = e.mobileUrl
          ]_vars

\* a title seen with a blank url, then u1 (and mobile m1), then u2 and a blank
\* mobile url: u1 and m1 stay
C3_Witness ==
    /\ ReadDone
    /\ \E p \in LedgerKeys :
          LET S == Appearances(p[1], p[2], rd.allow)
          IN /\ Cardinality(S) = 3
             /\ FieldIn(txt_files[Earliest(S)], p[1], p[2], "url") = ""
             /\ FieldIn(txt_files[Latest(S)], p[1], p[2], "url") = "u2"
             /\ FieldIn(txt_files[Latest(S)], p[1], p[2], "mobile") = ""
             /\ Entry(p[1], p[2]).url = "u1"
             /\ Entry(p[1], p[2]).mobileUrl = "m1"

\* ---- diff detector
FileNames == SortedNames(DOMAIN txt_files)

LatestName == Latest(DOMAIN txt_files)

DataIn(file, s, t) ==
    TitleData(RankIn(file, s, t), FieldIn(file, s, t, "url"), FieldIn(file, s, t, "mobile"))

ReportedNew(s, t) ==
    /\ DictHas(new_titles.out, s)
    /\ DictHas(DictGet(new_titles.out, s), t)

\* C4: with at least two snapshots, detect_latest_new_titles reports t under s
\* iff t is in source s of the latest snapshot and in source s of no earlier
\* snapshot (per source, after the allow-list filter), with the latest
\* snapshot's data for t.
C4_NewIffAbsentFromEarlier ==
    (new_titles.valid /\ Cardinality(DOMAIN txt_files) >= 2) =>
        \A s \in Sources, t \in CleanTitles :
            /\ ReportedNew(s, t) <=>
                  /\ InAllow(new_titles.allow, s)
                  /\ SnapshotHas(txt_files[LatestName], s, t)
                  /\ \A n \in DOMAIN txt_files \ {LatestName} :
                        ~SnapshotHas(txt_files[n], s, t)
            /\ ReportedNew(s, t) =>
                  DictGet(DictGet(new_titles.out, s), t) = DataIn(txt_files[LatestName], s, t)

\* the spec's example: three snapshots; a title of the first and the third
\* snapshot only is not reported, a title of the third only is reported
C4_Witness ==
    /\ new_titles.valid
    /\ Cardinality(DOMAIN txt_files) = 3
    /\ \E t \in CleanTitles :
          /\ SnapshotHas(txt_files[format_time_filename(FirstHour)], "s1", t)
          /\ ~SnapshotHas(txt_files[format_time_filename(FirstHour + 1)], "s1", t)
          /\ SnapshotHas(txt_files[LatestName], "s1", t)
          /\ ~ReportedNew("s1", t)
    /\ \E t \in CleanTitles : ReportedNew("s1", t)

\* C5: with fewer than two snapshots (none, one, or no day directory)
\* detect_latest_new_titles returns an empty result, whatever the snapshot holds.
C5_NothingNewBelowTwoSnapshots ==
    (new_titles.valid /\ Cardinality(DOMAIN txt_files) < 2) => new_titles.out = EmptyDict

\* one snapshot with titles in it, and nothing reported
C5_Witness ==
    /\ new_titles.valid
    /\ Cardinality(DOMAIN txt_files) = 1
    /\ \E s \in Sources, t \in CleanTitles : SnapshotHas(txt_files[LatestName], s, t)
    /\ new_titles.out = EmptyDict

\* C6: read_all_today_titles run twice over the same unchanged files with the
\* same allow-list returns the same ledger, the same merged per-source maps
\* and the same id-to-name map: the first run leaves nothing behind.
C6_SecondReadIdentical ==
    (ReadDone /\ returned.valid) => CurrentOutput = returned.out

\* a second read of a day with merged titles
C6_Witness ==
    /\ ReadDone
    /\ returned.valid
    /\ \E p \in LedgerKeys : Entry(p[1], p[2]).count = 2

\* ---- malformed units
RECURSIVE KeepParsable(_)
KeepParsable(lines) ==
    IF lines = << >> THEN << >>
    ELSE IF LineParses(Head(lines)) THEN << Head(lines) >> \o KeepParsable(Tail(lines))
         ELSE KeepParsable(Tail(lines))

\* the sections of a file without its unparsable lines and without the
\* sections that have, or are left with, no title line
RECURSIVE WithoutMalformed(_)
WithoutMalformed(secs) ==
    IF secs = << >> THEN << >>
    ELSE LET kept == KeepParsable(Head(secs).lines)
         IN (IF kept = << >> THEN << >>
             ELSE << [Head(secs) EXCEPT !.lines = kept] >>)
            \o WithoutMalformed(Tail(secs))

RepairedFiles ==
    [ n \in DOMAIN txt_files |-> [sections |-> WithoutMalformed(txt_files[n].sections)] ]

\* the entries of a ledger: (source, title, entry)
LedgerEntries(info) ==
    UNION { { << info[i].k, info[i].v[j].k, info[i].v[j].v >> : j \in DOMAIN info[i].v } :
              i \in DOMAIN info }

HasMalformedLine ==
    \E n \in DOMAIN txt_files : \E i \in DOMAIN txt_files[n].sections :
        \E j \in DOMAIN txt_files[n].sections[i].lines :
            ~LineParses(txt_files[n].sections[i].lines[j])

\* C7: a section with no title lines, or a title line that cannot be parsed,
\* is skipped on its own: the merge completes and the ledger holds every
\* well-formed section and title line of every snapshot exactly as if the
\* malformed units were absent.
C7_MalformedUnitsSkipped ==
    ReadDone =>
        LedgerEntries(title_info)
          = LedgerEntries(read_all_today_titles(txt_dir_exists, RepairedFiles,
                                                rd.allow).title_info)

\* a merge completed over files with an unparsable line: the well-formed line
\* after it in the same section is merged with the same title of another
\* snapshot
C7_Witness ==
    /\ ReadDone
    /\ HasMalformedLine
    /\ \E n \in DOMAIN txt_files : \E i \in DOMAIN txt_files[n].sections :
          LET ls == txt_files[n].sections[i].lines
          IN /\ Len(ls) = 2
             /\ ~LineParses(ls[1])
             /\ LineParses(ls[2])
             /\ \E e \in LedgerEntries(title_info) :
                   /\ e[1] = txt_files[n].sections[i].id
                   /\ e[2] = clean_title(ls[2].title)
                   /\ e[3].count = 2

\* ------------------------------------------------------------ C8, C9, C10
\* w occurs in t, letter case ignored
Occurs(w, t) ==
    \E k \in 0 .. (Len(t) - Len(w)) :
        \A j \in 1 .. Len(w) : Lower(w[j]) = Lower(t[k + j])

\* the title is empty or made of spaces only
IsBlank(t) == \A i \in DOMAIN t : t[i] = " "

HitsFilter(t) == \E i \in DOMAIN filter_words : Occurs(filter_words[i], t)

\* the title passes the group's tests: every required word, and one of the
\* normal words if there are any
Satisfies(t, g) ==
    /\ \A i \in DOMAIN g.required : Occurs(g.required[i], t)
    /\ g.normal = << >> \/ \E i \in DOMAIN g.normal : Occurs(g.normal[i], t)

\* C8 as stated: with no groups configured matches_word_groups is true of
\* every title, whatever the filter words
C8_NoGroupsMatchesEveryTitle ==
    (matched.valid /\ word_groups = << >>) => matched.result

\* C8: with no groups configured matches_word_groups is true of every title
\* that is not blank, whatever the filter words (a blank title is rejected
\* before the fallback is reached)
C8_NoGroupsMatchesNonBlankTitle ==
    (matched.valid /\ word_groups = << >> /\ ~IsBlank(matched.title)) => matched.result

\* no group, a filter word that occurs in the title, and the title matched
C8_Witness ==
    /\ matched.valid
    /\ word_groups = << >>
    /\ ~IsBlank(matched.title)
    /\ HitsFilter(matched.title)
    /\ matched.result

\* the (source, title) pairs handed to count_word_frequency
PairsOf(d) == UNION { { << d[i].k, d[i].v[j].k >> : j \in DOMAIN d[i].v } : i \in DOMAIN d }

ArgPairs == PairsOf(counted.args.results) \cup PairsOf(counted.args.new_titles)

SourceNameOf(id) ==
    IF \E i \in DOMAIN counted.args.id_to_name : counted.args.id_to_name[i].k = id
    THEN LET i == CHOOSE i \in DOMAIN counted.args.id_to_name :
                    counted.args.id_to_name[i].k = id
         IN counted.args.id_to_name[i].v
    ELSE id

\* where the pair stands in the statistics: entry and position in its titles
Places(id, t) ==
    { p \in UNION { { << i, j >> : j \in DOMAIN counted.out.stats[i].titles } :
                    i \in DOMAIN counted.out.stats } :
        /\ counted.out.stats[p[1]].titles[p[2]].title = t
        /\ counted.out.stats[p[1]].titles[p[2]].source_name = SourceNameOf(id) }

\* C9 as stated: a title in which a filter word occurs is never matched and
\* stands in no entry of the statistics, whatever the groups
C9_FilteredTitleNeverCounted ==
    counted.valid =>
        \A p \in ArgPairs :
            HitsFilter(p[2]) =>
                /\ ~matches_word_groups(p[2], word_groups, filter_words)
                /\ Places(p[1], p[2]) = {}

\* C9: provided at least one word group is configured, a title in which a
\* filter word occurs is never matched and stands in no entry of the statistics
C9_FilteredTitleNeverCountedWithGroups ==
    (counted.valid /\ word_groups # << >>) =>
        \A p \in ArgPairs :
            HitsFilter(p[2]) =>
                /\ ~matches_word_groups(p[2], word_groups, filter_words)
                /\ Places(p[1], p[2]) = {}

\* groups are configured, a title that passes a group's tests is left out for
\* its filter word while another title is counted
C9_Witness ==
    /\ counted.valid
    /\ word_groups # << >>
    /\ counted.out.stats # << >>
    /\ \E p \in PairsOf(counted.args.results) :
         /\ HitsFilter(p[2])
         /\ \E i \in DOMAIN word_groups : Satisfies(p[2], word_groups[i])
         /\ Places(p[1], p[2]) = {}

SatisfiedGroups(t) == { i \in DOMAIN word_groups : Satisfies(t, word_groups[i]) }

\* C10: every (source, title) pair stands in at most one entry of the
\* statistics and once in it, each entry counts the titles it lists, and with
\* groups configured the entry is the one of the earliest group in the
\* configured order whose tests the title passes
C10_CountedOnceUnderEarliestGroup ==
    counted.valid =>
        /\ \A p \in ArgPairs : Cardinality(Places(p[1], p[2])) <= 1
        /\ \A i \in DOMAIN counted.out.stats :
              counted.out.stats[i].count = Len(counted.out.stats[i].titles)
        /\ word_groups # << >> =>
              \A p \in ArgPairs : \A q \in Places(p[1], p[2]) :
                  /\ SatisfiedGroups(p[2]) # {}
                  /\ \A i \in SatisfiedGroups(p[2]) :
                        (\A j \in SatisfiedGroups(p[2]) : i <= j) =>
                            counted.out.stats[q[1]].word = word_groups[i].group_key

\* a counted title passes the tests of two groups with different keys and
\* stands under the earlier one
C10_Witness ==
    /\ counted.valid
    /\ \E p \in PairsOf(counted.args.results) : \E q \in Places(p[1], p[2]) :
         \E i, j \in SatisfiedGroups(p[2]) :
            /\ i < j
            /\ word_groups[i].group_key # word_groups[j].group_key
            /\ \A h \in SatisfiedGroups(p[2]) : i <= h
            /\ counted.out.stats[q[1]].word = word_groups[i].group_key

\* ------------------------------------------------------------- C11 .. C14
Counted(mode) == counted.valid /\ counted.args.mode = mode

\* the (source, title) pairs of the ledger handed to count_word_frequency
LedgerPairs == PairsOf(counted.args.title_info)

\* the pairs the latest snapshot holds and no earlier snapshot holds under the
\* same source, read off the file text; none below two snapshots
DiffPairs ==
    { p \in Sources \X CleanTitles :
        /\ Cardinality(DOMAIN txt_files) >= 2
        /\ SnapshotHas(txt_files[LatestName], p[1], p[2])
        /\ \A n \in DOMAIN txt_files \ {LatestName} : ~SnapshotHas(txt_files[n], p[1], p[2]) }

\* the title would be counted: it is not blank and, with groups configured,
\* no filter word occurs in it and it passes the tests of some group
Countable(t) ==
    /\ ~IsBlank(t)
    /\ word_groups # << >> => (~HitsFilter(t) /\ SatisfiedGroups(t) # {})

\* every record of the statistics: entry and position in its titles
AllPlaces ==
    UNION { { << i, j >> : j \in DOMAIN counted.out.stats[i].titles } :
            i \in DOMAIN counted.out.stats }

RecordAt(q) == counted.out.stats[q[1]].titles[q[2]]

\* the statistics hold exactly the countable pairs of the scope, and
\* total_titles is the size of the scope
ScopeIs(scope) ==
    /\ counted.out.total_titles = Cardinality(scope)
    /\ \A q \in AllPlaces : \E p \in scope : q \in Places(p[1], p[2])
    /\ \A p \in scope : Countable(p[2]) => Places(p[1], p[2]) # {}

LedgerEntry(p) == DictGet(DictGet(counted.args.title_info, p[1]), p[2])

\* the greatest last_time of the ledger, as a file name
MaxLastTime ==
    LET times == { LedgerEntry(p).last_time : p \in LedgerPairs }
    IN CHOOSE x \in times : \A y \in times : HourOf(y) <= HourOf(x)

CurrentPairs == { p \in LedgerPairs : LedgerEntry(p).last_time = MaxLastTime }

\* the snapshot holds a section of the source
HasSection(file, s) == \E i \in DOMAIN file.sections : file.sections[i].id = s

\* the snapshot holds a title of the source
HasTitles(file, s) == \E t \in CleanTitles : SnapshotHas(file, s, t)

RecordsOfSource(s) == { q \in AllPlaces : RecordAt(q).source_name = SourceNameOf(s) }

\* the record shows the times, count and ranks of the ledger entry, and these
\* are those of the whole day: the number of snapshots that hold the title,
\* the first and the last of them
ShowsLedgerEntry(p, q) ==
    /\ RecordAt(q).first_time = LedgerEntry(p).first_time
    /\ RecordAt(q).last_time = LedgerEntry(p).last_time
    /\ RecordAt(q).count = LedgerEntry(p).count
    /\ RecordAt(q).ranks = LedgerEntry(p).ranks
    /\ RecordAt(q).count = Cardinality(Appearances(p[1], p[2], ConfiguredPlatforms))
    /\ RecordAt(q).first_time = Earliest(Appearances(p[1], p[2], ConfiguredPlatforms))
    /\ RecordAt(q).last_time = Latest(Appearances(p[1], p[2], ConfiguredPlatforms))

CurrentScopeAndFields ==
    /\ ScopeIs(CurrentPairs)
    /\ \A p \in CurrentPairs : \A q \in Places(p[1], p[2]) : ShowsLedgerEntry(p, q)

\* C12 as stated: in current mode the scope is the ledger entries whose
\* last_time is the greatest last_time of the ledger, a source absent from the
\* latest snapshot contributes no title, and the records show the times, count
\* and ranks of the full-day ledger entry
C12_CurrentScopeLatestSnapshot ==
    Counted("current") =>
        /\ CurrentScopeAndFields
        /\ \A s \in Sources :
              ~HasSection(txt_files[LatestName], s) => RecordsOfSource(s) = {}

\* C12: in current mode the scope is the ledger entries whose last_time is the
\* greatest last_time of the ledger, a source with no title in the snapshot of
\* that time (the latest snapshot that holds any title) contributes no title,
\* and the records show the times, count and ranks of the full-day ledger entry
C12_CurrentScopeLatestTime ==
    Counted("current") =>
        /\ CurrentScopeAndFields
        /\ \A s \in Sources :
              ~HasTitles(txt_files[MaxLastTime], s) => RecordsOfSource(s) = {}

\* current mode: a title of the latest snapshot seen before with another rank
\* is shown with its count of 2 and both ranks, and a source that is only in
\* an earlier snapshot shows nothing
C12_Witness ==
    /\ Counted("current")
    /\ \E p \in CurrentPairs : \E q \in Places(p[1], p[2]) :
          /\ RecordAt(q).count = 2
          /\ Len(RecordAt(q).ranks) = 2
          /\ RecordAt(q).first_time # RecordAt(q).last_time
    /\ \E s \in Sources :
          /\ \E p \in LedgerPairs : p[1] = s
          /\ RecordsOfSource(s) = {}

SuppliedDiff == PairsOf(counted.args.new_titles)

\* the arguments came from _load_analysis_data, the titles as the files hold them
FromDayLedger == rd.phase = "done"

\* C13: in daily mode the scope is the whole ledger, and a title of the
\* statistics has is_new = true iff the diff result handed in holds the title
\* under the title's source (so with no diff result every is_new is false);
\* on the day's ledger that is iff the latest of two or more snapshots holds
\* the title under the source and no earlier one does
C13_DailyScopeAndNew ==
    Counted("daily") =>
        /\ ScopeIs(LedgerPairs)
        /\ \A p \in LedgerPairs : \A q \in Places(p[1], p[2]) :
              /\ RecordAt(q).is_new <=> p \in SuppliedDiff
              /\ FromDayLedger => (RecordAt(q).is_new <=> p \in DiffPairs)
        /\ SuppliedDiff = {} => \A q \in AllPlaces : ~RecordAt(q).is_new

\* daily mode: the same title stands under two sources, new under one of them
\* and not under the other
C13_Witness ==
    /\ Counted("daily")
    /\ \E p1, p2 \in LedgerPairs :
          /\ p1[2] = p2[2]
          /\ p1[1] # p2[1]
          /\ \E q \in Places(p1[1], p1[2]) : RecordAt(q).is_new
          /\ \E q \in Places(p2[1], p2[2]) : ~RecordAt(q).is_new

\* the dict count_word_frequency goes through, in its order
EncounterDict ==
    IF counted.args.mode = "incremental" /\ ~counted.args.is_first_today
    THEN counted.args.new_titles
    ELSE counted.args.results

IndexOfKey(d, key) == CHOOSE i \in DOMAIN d : d[i].k = key

SourceOfRecord(rec) ==
    CHOOSE s \in Sources : DictHas(EncounterDict, s) /\ SourceNameOf(s) = rec.source_name

\* record x was met before record y
MetBefore(x, y) ==
    LET sx == IndexOfKey(EncounterDict, SourceOfRecord(x))
        sy == IndexOfKey(EncounterDict, SourceOfRecord(y))
    IN \/ sx < sy
       \/ sx = sy /\ IndexOfKey(EncounterDict[sx].v, x.title)
                       < IndexOfKey(EncounterDict[sy].v, y.title)

TimeNumber(t) == IF t = << >> THEN 0 - 1 ELSE HourOf(t)

LeastRank(rec) == CHOOSE r \in Range(rec.ranks) : \A x \in Range(rec.ranks) : r <= x

\* (new first, least rank, last_time) as three numbers
SortKey(rec) == << IF rec.is_new THEN 0 ELSE 1, LeastRank(rec), TimeNumber(rec.last_time) >>

KeyBelow(k1, k2) ==
    \/ k1[1] < k2[1]
    \/ k1[1] = k2[1] /\ k1[2] < k2[2]
    \/ k1[1] = k2[1] /\ k1[2] = k2[2] /\ k1[3] < k2[3]

\* position of the entry's group in the configured order
ConfiguredPosition(word) ==
    IF word_groups = << >> THEN 1
    ELSE CHOOSE i \in DOMAIN word_groups :
            /\ word_groups[i].group_key = word
            /\ \A j \in 1 .. (i - 1) : word_groups[j].group_key # word

\* C14: the titles of every entry stand in ascending order of (new first,
\* least rank, last_time), titles with equal keys in the order they were met;
\* the entries stand in descending order of count, entries with equal count
\* in the configured order of their groups
C14_OutputOrder ==
    counted.valid =>
        /\ \A i \in DOMAIN counted.out.stats :
              LET ts == counted.out.stats[i].titles
              IN \A j, k \in DOMAIN ts :
                    j < k => \/ KeyBelow(SortKey(ts[j]), SortKey(ts[k]))
                             \/ /\ SortKey(ts[j]) = SortKey(ts[k])
                                /\ MetBefore(ts[j], ts[k])
        /\ \A i, j \in DOMAIN counted.out.stats :
              i < j => \/ counted.out.stats[i].count > counted.out.stats[j].count
                       \/ /\ counted.out.stats[i].count = counted.out.stats[j].count
                          /\ ConfiguredPosition(counted.out.stats[i].word)
                               < ConfiguredPosition(counted.out.stats[j].word)

\* two titles of one entry that agree on is_new and on the least rank stand
\* in the order of their last_time, against the order they were met in
C14_Witness ==
    /\ counted.valid
    /\ \E i \in DOMAIN counted.out.stats :
          LET ts == counted.out.stats[i].titles
          IN \E j, k \in DOMAIN ts :
                /\ j < k
                /\ ts[j].is_new = ts[k].is_new
                /\ LeastRank(ts[j]) = LeastRank(ts[k])
                /\ TimeNumber(ts[j].last_time) < TimeNumber(ts[k].last_time)
                /\ MetBefore(ts[k], ts[j])

\* ------------------------------------------------------------ the push gate
\* minutes since midnight of a reading of the clock
MinutesOfClock(tod) == TimesOfDay[tod][1] * 60 + TimesOfDay[tod][2]

\* minutes since midnight of a configured H:MM or HH:MM
MinutesOfText(str) ==
    LET colon == CHOOSE i \in DOMAIN str : str[i] = ":"
    IN DigitsValue(SubSeq(str, 1, colon - 1)) * 60
         + DigitsValue(SubSeq(str, colon + 1, Len(str)))

InWindow(tod) ==
    /\ MinutesOfText(push_cfg.start) <= MinutesOfClock(tod)
    /\ MinutesOfClock(tod) <= MinutesOfText(push_cfg.end)

\* a call has passed the gate
Gated == inv.gate # "none"

ChannelsDone == inv.pc \in { "record", "done" }

\* C15: a call of send_to_notifications reaches the delivery channels exactly
\* when the push window is disabled, or the time of day lies in [start, end],
\* both bounds included, and once-per-day is disabled or today has no record
\* with pushed = true; a denied call invokes no channel and writes no record.
C15_GateAllows ==
    Gated =>
      /\ inv.gate = "allowed" <=>
           \/ ~push_cfg.enabled
           \/ /\ InWindow(inv.tod)
              /\ ~push_cfg.once_per_day \/ inv.today_before # "pushed"
      /\ inv.gate = "allowed" /\ ChannelsDone =>
           /\ push_cfg.telegram => inv.telegram # "none"
           /\ push_cfg.email => inv.email # "none"
      /\ inv.gate = "denied" =>
           /\ inv.pc = "done"
           /\ inv.telegram = "none" /\ inv.email = "none" /\ inv.wrote = "none"
           /\ record_files[RecordName(inv.day)] = inv.today_before

\* a call at 08:00 under a window configured as 8:00-22:00 with a damaged
\* record of the day went through to Telegram
C15_Witness ==
    /\ push_cfg.enabled /\ push_cfg.once_per_day
    /\ push_cfg.start = << "8", ":", "0", "0" >>
    /\ inv.gate = "allowed" /\ inv.pc = "done"
    /\ TimesOfDay[inv.tod] = << 8, 0 >>
    /\ inv.today_before = "damaged"
    /\ inv.telegram = "ok"


OncePerDay == push_cfg.enabled /\ push_cfg.once_per_day

ReportedSuccess == inv.telegram = "ok" \/ inv.email = "ok"

\* an allowed call has returned and no channel reported success
ReturnedWithoutSuccess == inv.gate = "allowed" /\ inv.pc = "done" /\ ~ReportedSuccess

\* C17: the record files change only at the end of a call in which a channel
\* reported success; a call whose channels all failed, or that has none,
\* writes nothing and leaves the day's record as it was at its gate, and the
\* next call of that day inside the window is allowed again.
C17_RecordOnlyOnSuccess ==
    /\ [][record_files' # record_files => inv.pc = "record" /\ ReportedSuccess /\ OncePerDay]_vars
    /\ [](ReturnedWithoutSuccess =>
            inv.wrote = "none" /\ record_files[RecordName(inv.day)] = inv.today_before)
    /\ [](Gated /\ inv.after_failure /\ (push_cfg.enabled => InWindow(inv.tod)) =>
            inv.gate = "allowed")

\* with once-per-day on, a call inside the window was allowed right after a
\* call of the same day whose only tried channel failed
C17_Witness ==
    /\ OncePerDay
    /\ push_cfg.telegram
    /\ inv.after_failure /\ inv.gate = "allowed" /\ InWindow(inv.tod)
    /\ inv.today_before = "absent"
    /\ record_files[RecordName(inv.day)] = "absent"


\* record_push could not write the file
WriteFailed == inv.wrote \in { "open-failed", "dump-failed" }

\* C19: a record that is missing or cannot be read counts as not pushed, so
\* with once-per-day on a call inside the window is allowed; a record that
\* cannot be written does not keep the call from returning its results.
C19_FailOpen ==
    /\ Gated /\ OncePerDay /\ InWindow(inv.tod) /\ inv.today_before \in { "absent", "damaged" }
         => inv.gate = "allowed"
    /\ WriteFailed => inv.pc = "done" /\ inv.gate = "allowed" /\ ReportedSuccess

\* a call that found the day's record damaged went through, delivered, and
\* returned although its own record could not be written
C19_Witness ==
    /\ OncePerDay
    /\ inv.today_before = "damaged"
    /\ inv.gate = "allowed" /\ inv.pc = "done"
    /\ inv.email = "ok"
    /\ inv.wrote = "open-failed"


\* the date of the file lies more than retention_days days before today
Expired(name) == name.parses /\ clock.day - name.day > push_cfg.retention_days

Constructed == inv.pc = "constructed"

\* C18: constructing a PushRecordManager removes exactly the record files that
\* are dated more than retention_days days before today and can be deleted;
\* every other file, today's record included, is left as it was, whatever
\* unparsable or undeletable files the directory listing gives first.
C18_SweepExpired ==
    Constructed =>
      /\ \A name \in RecordNames :
           record_files[name] = IF Expired(name) /\ name \notin locked THEN "absent"
                                ELSE swept_from[name]
      /\ record_files[RecordName(clock.day)] = swept_from[RecordName(clock.day)]

\* a sweep removed an expired record and kept an unparsable file and today's
\* record
C18_Witness ==
    /\ Constructed
    /\ clock.day = MaxDay
    /\ swept_from[UnparsableName] # "absent" /\ record_files[UnparsableName] # "absent"
    /\ \E old \in RecordNames :
         Expired(old) /\ old \notin locked
           /\ swept_from[old] = "pushed" /\ record_files[old] = "absent"
    /\ swept_from[RecordName(clock.day)] = "pushed"
    /\ record_files[RecordName(clock.day)] = "pushed"


\* ---------------------------------------------------------- message batches
\* the piece at position p of batch b is the first title of a group / source
FirstStatItem(b, p) == b[p].kind = "stat_item" /\ b[p].item = 1

FirstSourceItem(b, p) == b[p].kind = "source_item" /\ b[p].item = 1

\* how often the first title of group / source i stands in the batches
Occurrences(kind, i) ==
    Cardinality(UNION { { << n, p >> : p \in { q \in DOMAIN pack.batches[n] :
                                                 /\ pack.batches[n][q].kind = kind
                                                 /\ pack.batches[n][q].sec = i
                                                 /\ pack.batches[n][q].item = 1 } } :
                        n \in DOMAIN pack.batches })

\* C20: in the batches returned, the first title of every group stands once,
\* in the batch of and right after the group's header, and the first title of
\* every source of the new-titles section once, in the batch of and right
\* after the source's header, whatever the byte budget.
C20_HeaderWithFirstItem ==
    pack.done =>
      /\ \A n \in DOMAIN pack.batches : \A p \in DOMAIN pack.batches[n] :
           LET b == pack.batches[n]
           IN /\ FirstStatItem(b, p) =>
                   p > 1 /\ b[p - 1].kind = "word_header" /\ b[p - 1].sec = b[p].sec
              /\ FirstSourceItem(b, p) =>
                   p > 1 /\ b[p - 1].kind = "source_header" /\ b[p - 1].sec = b[p].sec
      /\ \A i \in DOMAIN pack.report_data.stats :
           pack.report_data.stats[i] > 0 => Occurrences("stat_item", i) = 1
      /\ \A i \in DOMAIN pack.report_data.new_titles :
           Occurrences("source_item", i) = 1

\* a budget that the header of the second group alone fits in the first batch
\* but not with its first title: both open the second batch; and a source's
\* header and first title open a later batch
C20_Witness ==
    /\ pack.done
    /\ Len(pack.batches) >= 3
    /\ Len(pack.report_data.stats) = 2 /\ pack.report_data.stats[1] > 0
    /\ ~Overflows(SubSeq(pack.batches[1], 1, Len(pack.batches[1]) - 1) \o word_header(2),
                  pack.max_bytes)
    /\ \E p \in DOMAIN pack.batches[2] : FirstStatItem(pack.batches[2], p) /\ pack.batches[2][p].sec = 2
    /\ \E n \in DOMAIN pack.batches : \E p \in DOMAIN pack.batches[n] :
         n > 2 /\ FirstSourceItem(pack.batches[n], p)


\* the batch has a piece of this kind (and section) before position p
Before(b, p, kind, sec) == \E q \in 1 .. (p - 1) : b[q].kind = kind /\ b[q].sec = sec

\* C21: every batch starts with the shared header and ends with the footer,
\* and every title or failed id in it comes after the header of its section
\* and, for a title, after the header of its group or source, in that batch.
C21_SelfDescribing ==
    pack.done =>
      \A n \in DOMAIN pack.batches :
        LET b == pack.batches[n]
        IN /\ Len(b) >= 2
           /\ b[1] = base_header[1]
           /\ b[Len(b)] = base_footer[1]
           /\ \A p \in DOMAIN b :
                /\ b[p].kind = "stat_item" =>
                     Before(b, p, "stats_header", 0) /\ Before(b, p, "word_header", b[p].sec)
                /\ b[p].kind = "source_item" =>
                     Before(b, p, "new_header", 0) /\ Before(b, p, "source_header", b[p].sec)
                /\ b[p].kind = "failed_line" => Before(b, p, "failed_header", 0)

\* the second title of a group and the second title of a source each opened a
\* batch of their own, under the headers carried over
C21_Witness ==
    /\ pack.done
    /\ \E n \in DOMAIN pack.batches :
         LET b == pack.batches[n]
         IN Len(b) >= 5 /\ b[4].kind = "stat_item" /\ b[4].item = 2
              /\ b[3].kind = "word_header" /\ b[2].kind = "stats_header"
    /\ \E n \in DOMAIN pack.batches :
         LET b == pack.batches[n]
         IN Len(b) >= 5 /\ b[4].kind = "source_item" /\ b[4].item = 2
              /\ b[3].kind = "source_header" /\ b[2].kind = "new_header"


IsItem(piece) == piece.kind \in { "stat_item", "source_item", "failed_line" }

\* the batches in order, as one text
RECURSIVE Joined(_)
Joined(batches) == IF batches = << >> THEN << >> ELSE Head(batches) \o Joined(Tail(batches))

\* the rendered lines a report asks for, in its order
RECURSIVE StatLines(_, _)
StatLines(stats, i) ==
    IF i > Len(stats) THEN << >>
    ELSE [ j \in 1 .. stats[i] |-> stat_news_line(i, j, stats[i])[1] ] \o StatLines(stats, i + 1)

RECURSIVE NewTitleLines(_, _)
NewTitleLines(sources, i) ==
    IF i > Len(sources) THEN << >>
    ELSE [ j \in 1 .. sources[i] |-> source_news_line(i, j)[1] ] \o NewTitleLines(sources, i + 1)

ExpectedLines(report_data) ==
    StatLines(report_data.stats, 1) \o NewTitleLines(report_data.new_titles, 1)
      \o [ i \in DOMAIN report_data.failed_ids |-> failed_line(i)[1] ]

\* C22: for every report and every budget the call returns, and the title and
\* failed-id lines of the batches, read in batch order, are the lines of the
\* report in its order: each once, whole, none left out.
C22_EveryLineOnce ==
    pack.done => SelectSeq(Joined(pack.batches), IsItem) = ExpectedLines(pack.report_data)

\* a budget below header plus footer: three batches, each over the budget,
\* carry the two titles and the failed id of the report
C22_Witness ==
    /\ pack.done
    /\ pack.max_bytes < Bytes(base_header \o base_footer)
    /\ Len(ExpectedLines(pack.report_data)) >= 3
    /\ pack.report_data.stats # << >> /\ pack.report_data.new_titles # << >>
    /\ pack.report_data.failed_ids # << >>
    /\ Len(pack.batches) >= 3


IsHeader(piece) ==
    piece.kind \in { "stats_header", "new_header", "failed_header", "word_header", "source_header" }

\* the batch without the shared header, the footer and a newline before it
Body(b) ==
    LET inner == SubSeq(b, 2, Len(b) - 1)
    IN IF inner # << >> /\ inner[Len(inner)] = newline[1]
       THEN SubSeq(inner, 1, Len(inner) - 1)
       ELSE inner

\* the text that was placed last in a buffer holding one unit: a title after
\* the first, a header with its first title, or a header
UnitOf(b) ==
    LET body == Body(b)
        last == body[Len(body)]
    IN IF IsItem(last) /\ last.kind # "failed_line" /\ last.item = 1
       THEN SubSeq(body, Len(body) - 1, Len(body))
       ELSE << last >>

\* the buffer was opened for one unit and nothing was added but a newline:
\* the carried-over headers, then the unit (or the placeholder batch)
OpenedForUnit(b) ==
    LET body == Body(b)
        context == SubSeq(body, 1, Len(body) - Len(UnitOf(b)))
    IN /\ body # << >>
       /\ \A q \in DOMAIN context : IsHeader(context[q])
       /\ \A q, r \in DOMAIN context : q # r => context[q].kind # context[r].kind
       /\ \A q \in DOMAIN context : \A r \in DOMAIN UnitOf(b) :
            context[q].kind # UnitOf(b)[r].kind

OverBudget(b) == Bytes(b) > pack.max_bytes

\* C23 as stated: a batch is longer than the budget only if it was opened for
\* a single unit that by itself, with the footer, does not fit the budget.
C23_OverBudgetOnlyOversizedUnit ==
    pack.done /\ pack.report_data # NoReport =>
      \A n \in DOMAIN pack.batches :
        OverBudget(pack.batches[n]) =>
          /\ OpenedForUnit(pack.batches[n])
          /\ Overflows(UnitOf(pack.batches[n]), pack.max_bytes)

\* C23: a batch is longer than the budget only if it was opened for a single
\* unit and that unit under the shared header and the headers carried over,
\* with the footer, meets or exceeds the budget; the newline after a source
\* never takes a batch that passed the size test above the budget.
C23_OverBudgetOnlyFreshUnit ==
    pack.done =>
      \A n \in DOMAIN pack.batches :
        OverBudget(pack.batches[n]) =>
          /\ OpenedForUnit(pack.batches[n])
          /\ Overflows(base_header \o Body(pack.batches[n]), pack.max_bytes)

\* the second title of a source, small enough for the budget by itself, was
\* moved to a batch that is over the budget under its headers, and the newline
\* after the source was added to it
C23_Witness ==
    /\ pack.done
    /\ \E n \in DOMAIN pack.batches :
         LET b == pack.batches[n]
         IN /\ OverBudget(b)
            /\ b[Len(b) - 1] = newline[1]
            /\ UnitOf(b)[1].kind = "source_item" /\ UnitOf(b)[1].item = 2
            /\ ~Overflows(UnitOf(b), pack.max_bytes)
            /\ OpenedForUnit(b)


\* the placeholder sentence a mode asks for
PlaceholderKind(mode) ==
    IF mode = "incremental" THEN "no match, incremental mode"
    ELSE IF mode = "current" THEN "no match, current mode"
    ELSE "no match"

\* C24: a report without stats, new titles and failed ids gives exactly one
\* batch: shared header, the placeholder sentence of the mode, footer; every
\* other report gives at least one batch.
C24_PlaceholderBatch ==
    pack.done =>
      IF pack.report_data = NoReport
      THEN /\ Len(pack.batches) = 1
           /\ Len(pack.batches[1]) = 3
           /\ pack.batches[1][1] = base_header[1]
           /\ pack.batches[1][2].kind = PlaceholderKind(pack.mode)
           /\ pack.batches[1][3] = base_footer[1]
      ELSE Len(pack.batches) >= 1

\* the placeholder batch of current mode, returned under a budget of nothing
C24_Witness ==
    /\ pack.done
    /\ pack.report_data = NoReport
    /\ pack.mode = "current"
    /\ pack.max_bytes = 0
    /\ Len(pack.batches) = 1


\* ----------------------------------------------------- detector and merger
\* the day's ledger and the day's diff were both built from the directory as
\* it is, with the same allow-list
LedgerAndDiff == rd.phase = "done" /\ new_titles.valid /\ new_titles.allow = rd.allow

\* the ledger has (s, t), seen once, first in the latest snapshot
OnceInLatest(p) ==
    /\ DictHas(title_info, p[1])
    /\ DictHas(DictGet(title_info, p[1]), p[2])
    /\ DictGet(DictGet(title_info, p[1]), p[2]).count = 1
    /\ DictGet(DictGet(title_info, p[1]), p[2]).first_time = LatestName

\* C27: for a day of at least two snapshots and one allow-list, a title is
\* reported new under a source by detect_latest_new_titles exactly when the
\* ledger entry of read_all_today_titles for it has count 1 and the time of
\* the latest snapshot as first_time.
C27_DiffAgreesWithLedger ==
    LedgerAndDiff /\ Cardinality(DOMAIN txt_files) >= 2 =>
        \A p \in PairsOf(title_info) \cup PairsOf(new_titles.out) :
            ReportedNew(p[1], p[2]) <=> OnceInLatest(p)

\* a title new in the latest snapshot, and one of the latest snapshot that an
\* earlier snapshot has under the same source
C27_Witness ==
    /\ LedgerAndDiff
    /\ Cardinality(DOMAIN txt_files) >= 2
    /\ \E p, q \in PairsOf(title_info) :
          /\ ReportedNew(p[1], p[2]) /\ OnceInLatest(p)
          /\ ~ReportedNew(q[1], q[2])
          /\ DictGet(DictGet(title_info, q[1]), q[2]).count >= 2
          /\ DictGet(DictGet(title_info, q[1]), q[2]).last_time = LatestName


\* ---------------------------------------------------- counts of the entries
\* the pairs in scope of the call, by its mode
ScopePairs ==
    IF counted.args.mode = "incremental"
    THEN (IF Cardinality(DOMAIN txt_files) <= 1 THEN LedgerPairs ELSE DiffPairs)
    ELSE IF counted.args.mode = "current" THEN CurrentPairs
    ELSE LedgerPairs

RECURSIVE SumCounts(_)
SumCounts(stats) == IF stats = << >> THEN 0 ELSE Head(stats).count + SumCounts(Tail(stats))

\* C28: every entry of the statistics has a count of at least 1 that is the
\* length of its titles; the counts add up to the number of pairs in scope
\* that matches_word_groups accepts; every accepted pair stands in exactly one
\* entry and no rejected pair in any.
C28_CountsAddUp ==
    counted.valid =>
        /\ \A i \in DOMAIN counted.out.stats :
              /\ counted.out.stats[i].count >= 1
              /\ counted.out.stats[i].count = Len(counted.out.stats[i].titles)
        /\ SumCounts(counted.out.stats)
              = Cardinality({ p \in ScopePairs : Countable(p[2]) })
        /\ \A p \in ScopePairs :
              Cardinality(Places(p[1], p[2])) = IF Countable(p[2]) THEN 1 ELSE 0

\* two groups configured, one of them without a title; of the two pairs in
\* scope one is counted and one rejected
C28_Witness ==
    /\ counted.valid
    /\ Len(word_groups) = 2
    /\ Len(counted.out.stats) = 1
    /\ SumCounts(counted.out.stats) = 1
    /\ Cardinality(ScopePairs) = 2
    /\ \E p \in ScopePairs : ~Countable(p[2])

\* ------------------------------------------------------------ the fetch layer
Requested == { crawl.ids_list[n] : n \in DOMAIN crawl.ids_list }

Failed == { crawl.failed_ids[n] : n \in DOMAIN crawl.failed_ids }

\* C30: when crawl_websites has returned, every requested id is in exactly one
\* of results and failed_ids, and id_to_name has an entry for every requested
\* id.  Violated: the scraper fetcher with no scraper loaded returns three empty
\* results, and an id whose items raise midway is in results and in failed_ids.
C30_ExactlyOneOfResultsAndFailed ==
    crawl.returned =>
      \A id_value \in Requested :
        /\ DictHas(crawl.results, id_value) # (id_value \in Failed)
        /\ DictHas(crawl.id_to_name, id_value)

\* -------------------------------------------------------------- the pipeline
RunFinished == pipeline.pc = "idle" /\ pipeline.runs > 0

\* C25: a fetch failure of any subset of the sources, all of them included,
\* never aborts a run, in any mode, and the ids that failed in the run are the
\* failed_ids of every report the run delivers.  Violated: in current mode a
\* first run whose sources all fail raises; the summary that daily mode sends
\* is given failed_ids=[].
C25_FailuresReachTheReport ==
    RunFinished =>
      /\ ~pipeline.last.aborted
      /\ \A report \in pipeline.last.sent : report.failed_ids = pipeline.last.failed

FilesOfDay == { m \in DOMAIN pipeline.files : pipeline.files[m].saved }

\* C26: the two saves of a run write the same file, no run overwrites the file
\* of an earlier run, every run adds one snapshot to the day, and after n runs
\* the ledger count of a title is the number of runs whose crawl had it.
\* Violated: the minute turns between the two saves (two files for one run), or
\* a run starts in the minute of the run before (one file for two runs).
C26_OneSnapshotPerRun ==
    /\ pipeline.pc = "saved" => ~pipeline.two_files /\ ~pipeline.overwrote
    /\ pipeline.pc = "idle" =>
         /\ Cardinality(FilesOfDay) = pipeline.runs
         /\ \A s \in Sources : LedgerCount(pipeline.files, s) = pipeline.contained[s]

\* ----------------------------------------------------------- the cache service
GetReturning(t) ==
    /\ cache.pc = "ready"
    /\ cache.threads[t].call.op = "get"
    /\ cache.threads[t].pc = "return"

SameKeySets ==
    KeysOf(cache.cache, NoValue) = KeysOf(cache.timestamps, NoTime)

\* the get of thread t returns the value of the set it saw when that set is
\* fresh under the get's ttl and none of the removals named came after it
ReturnsLatestSet(t, removals) ==
    LET th == cache.threads[t]
        live == /\ th.seen.set
                /\ th.seen.dropped \notin removals
                /\ th.at - th.seen.at < th.call.ttl
    IN th.result = IF live THEN th.seen.value ELSE "None"

\* C29 as stated: under any interleaving, get(key, ttl) returns the value of the
\* most recent set of the key when that set was less than ttl seconds earlier
\* and no delete or clear followed it, None otherwise; and the two maps have the
\* same keys whenever no method is inside its with-block.  Violated: a get or a
\* cleanup_expired with a smaller ttl removes the entry, and a later get with a
\* larger ttl returns None for a set that is fresh under that ttl.
C29_GetReturnsLatestSet ==
    cache.pc = "ready" =>
      /\ \A t \in Threads : GetReturning(t) => ReturnsLatestSet(t, { "delete", "clear" })
      /\ cache.lock = 0 => SameKeySets

\* C29 amended: the removal of an expired entry, by a get or a cleanup_expired
\* under its own ttl, ends a set as delete and clear do.
C29_GetReturnsLatestKeptSet ==
    cache.pc = "ready" =>
      /\ \A t \in Threads :
           GetReturning(t) => ReturnsLatestSet(t, { "delete", "clear", "expired" })
      /\ cache.lock = 0 => SameKeySets

\* a get misses a set that is still fresh under its ttl, because the entry was
\* removed as expired under a smaller one
C29_Witness ==
    /\ cache.pc = "ready"
    /\ \E t \in Threads :
         /\ GetReturning(t)
         /\ cache.threads[t].seen.set
         /\ cache.threads[t].seen.dropped = "expired"
         /\ cache.threads[t].at - cache.threads[t].seen.at < cache.threads[t].call.ttl
         /\ cache.threads[t].result = "None"

====
